---- MODULE Spec2Model ----
(***************************************************************************)
(* Deployer core of utd-se4485-group-3: manifest-driven verification and   *)
(* extraction of the extensions archive (expander_verifier.py) and the     *)
(* replace-mode backup of installed extensions (backup_cleanup.py), and    *)
(* the preseeding of the VS Code server (remote_server.py), and steps 5 to  *)
(* 8 of run() that call them in turn (orchestrator.py).                    *)
(*                                                                         *)
(* Strings are sequences of one-character strings, so that strip(),        *)
(* lower(), replace() and split() are computed character by character.     *)
(***************************************************************************)
EXTENDS Naturals, Integers, Sequences, FiniteSets, TLC

VARIABLES
    \* ---- _ensure_safe_member called on its own ----
    raw,        \* the raw path string handed to _ensure_safe_member
    res,        \* its outcome: [ok, val, err]
    ppc,        \* "call" before the call, "done" after it
    \* ---- expand_and_verify ----
    archive,    \* the archive file: [kind, members], members being name -> content
    manifest,   \* the manifest file: [kind, files], files being the raw records
    mode,       \* verify_integrity, already upper-cased
    dry_run,    \* the dry_run flag
    fs0,        \* the target directory when the call starts
    fs,         \* the target directory now: [exists, files]
    pc,         \* position inside expand_and_verify
    entries,    \* the ManifestEntry list built by _read_manifest
    idx,        \* loop index of _verify_entries / extractall
    findings,   \* the findings collected by _verify_entries
    hashed,     \* members whose bytes were read by _hash_zip_member
    sized,      \* members whose size was compared
    extracted,  \* archive members written by extractall
    outcome,    \* "running", "ok" or the error raised
    errinfo,    \* payload of the error: missing members or finding lines
    warned,     \* the aggregated warning handed to logger.warning, or <<>>
    \* ---- apply_replace_mode ----
    rmode,      \* the replace mode, already upper-cased
    backup_dir, \* the backup root, as path components
    tgt0,       \* the target directory when the call starts
    tgt,        \* the target directory now: [exists, items]
    tmp,        \* whether the temp directory exists
    bkp0,       \* the backup root when the call starts
    bkp,        \* the backup root now: [exists, sessions]
    rman,       \* temp/manifest.json as _load_manifest finds it
    include,    \* include_extensions
    exclude,    \* exclude_extensions
    rpc,        \* position inside apply_replace_mode
    installed,  \* the list built by _scan_extensions
    victims,    \* the items chosen for displacement
    vidx,       \* loop index of _backup_and_remove
    session,    \* suffix counter of the session directory, -1 before it exists
    made,       \* the directories created by the three mkdir calls
    routcome,   \* "running", "ok" or the error raised
    \* ---- preseed_server ----
    tarball,    \* the file at server_tarball_path: [kind, members]
    target0,    \* the commit directory before the first call
    entry,      \* the commit directory when the current call starts
    target,     \* the commit directory now: [exists, files]
    spc,        \* position inside preseed_server
    midx,       \* loop index over t.getmembers()
    removed,    \* whether this call ran shutil.rmtree(target)
    extracts,   \* the paths this call handed to t.extract, in order
    chmods,     \* the paths this call handed to _make_executable
    validated,  \* whether this call's loop over required_files ran to its end
    touched,    \* whether this call ran success_marker.touch()
    calls,      \* number of the current call
    earlier,    \* outcome and resulting directory of the calls before, in order
    soutcome,   \* "running", "ok" or the error raised
    \* ---- run(), steps 5 to 8 ----
    runpc,      \* the step run() is in: "replace", "expand", "returned", "raised"
    cli_installed \* the files a code --install-extension call returned 0 for

pathVars == <<raw, res, ppc>>
expandVars == <<archive, manifest, mode, dry_run, fs0, fs, pc, entries, idx,
                findings, hashed, sized, extracted, outcome, errinfo, warned>>
replaceVars == <<rmode, backup_dir, tgt0, tgt, tmp, bkp0, bkp, rman, include, exclude,
                 rpc, installed, victims, vidx, session, made, routcome>>
preseedVars == <<tarball, target0, entry, target, spc, midx, removed, extracts, chmods,
                 validated, touched, calls, earlier, soutcome>>
runVars == <<runpc, cli_installed>>
vars == <<pathVars, expandVars, replaceVars, preseedVars, runVars>>

None == "None"

(***************************************************************************)
(* String helpers (Python str methods)                                     *)
(***************************************************************************)
IsSpace(c) == c = " "

RECURSIVE lstrip(_)
lstrip(s) == IF s # <<>> /\ IsSpace(Head(s)) THEN lstrip(Tail(s)) ELSE s

RECURSIVE rstrip(_)
rstrip(s) ==
    IF s # <<>> /\ IsSpace(s[Len(s)]) THEN rstrip(SubSeq(s, 1, Len(s) - 1)) ELSE s

\* str.strip()
strip(s) == rstrip(lstrip(s))

\* str.lower() on ASCII letters
LowerChar(c) ==
    CASE c = "A" -> "a"
      [] c = "B" -> "b"
      [] c = "C" -> "c"
      [] c = "D" -> "d"
      [] c = "E" -> "e"
      [] c = "F" -> "f"
      [] c = "G" -> "g"
      [] c = "H" -> "h"
      [] c = "I" -> "i"
      [] c = "J" -> "j"
      [] c = "K" -> "k"
      [] c = "L" -> "l"
      [] c = "M" -> "m"
      [] c = "N" -> "n"
      [] c = "O" -> "o"
      [] c = "P" -> "p"
      [] c = "Q" -> "q"
      [] c = "R" -> "r"
      [] c = "S" -> "s"
      [] c = "T" -> "t"
      [] c = "U" -> "u"
      [] c = "V" -> "v"
      [] c = "W" -> "w"
      [] c = "X" -> "x"
      [] c = "Y" -> "y"
      [] c = "Z" -> "z"
      [] OTHER -> c

lower(s) == [i \in 1..Len(s) |-> LowerChar(s[i])]

\* str.replace(old, new) for one-character old and new
replace(s, old, new) == [i \in 1..Len(s) |-> IF s[i] = old THEN new ELSE s[i]]

\* str.split(sep): always at least one piece, empty pieces kept
RECURSIVE split(_, _)
split(s, sep) ==
    IF \A i \in 1..Len(s) : s[i] # sep
    THEN <<s>>
    ELSE LET k == CHOOSE i \in 1..Len(s) :
                      s[i] = sep /\ \A j \in 1..(i - 1) : s[j] # sep
         IN  <<SubSeq(s, 1, k - 1)>> \o split(SubSeq(s, k + 1, Len(s)), sep)

\* sep.join(parts)
RECURSIVE join(_, _)
join(parts, sep) ==
    IF parts = <<>> THEN <<>>
    ELSE IF Len(parts) = 1 THEN parts[1]
    ELSE parts[1] \o <<sep>> \o join(Tail(parts), sep)

Contains(s, c) == \E i \in 1..Len(s) : s[i] = c

NonEmpty(p) == p # <<>>

DotDot == <<".", ".">>

(***************************************************************************)
(* _ensure_safe_member                                                     *)
(***************************************************************************)
Fail(kind) == [ok |-> FALSE, val |-> <<>>, err |-> kind]
Good(v) == [ok |-> TRUE, val |-> v, err |-> None]

\* mutant: the '..' test looks at the '/'-pieces of the string before the
\* backslashes are replaced
ensure_safe_member_noNormalize(value) ==
    LET candidate == strip(value)
        normalized == replace(candidate, "\\", "/")
        parts == SelectSeq(split(normalized, "/"), NonEmpty)
        rawparts == split(candidate, "/")
    IN  IF candidate = <<>> THEN Fail("EmptyPath")
        ELSE IF candidate[1] \in {"/", "\\"} THEN Fail("NotRelative")
        ELSE IF Contains(candidate, ":") THEN Fail("HasColon")
        ELSE IF \E i \in 1..Len(rawparts) : rawparts[i] = DotDot THEN Fail("Escapes")
        ELSE Good(join(parts, "/"))

ensure_safe_member(value) ==
    LET candidate == strip(value)
        normalized == replace(candidate, "\\", "/")
        parts == SelectSeq(split(normalized, "/"), NonEmpty)
    IN  IF candidate = <<>> THEN Fail("EmptyPath")
        ELSE IF candidate[1] \in {"/", "\\"} THEN Fail("NotRelative")
        ELSE IF Contains(candidate, ":") THEN Fail("HasColon")
        ELSE IF \E i \in 1..Len(parts) : parts[i] = DotDot THEN Fail("Escapes")
        ELSE Good(join(parts, "/"))

(***************************************************************************)
(* Ordering of strings: Python compares str values by code point           *)
(***************************************************************************)
Code(c) ==
    CASE c = " " -> 32
      [] c = "-" -> 45
      [] c = "." -> 46
      [] c = "/" -> 47
      [] c = "0" -> 48
      [] c = "1" -> 49
      [] c = "2" -> 50
      [] c = ":" -> 58
      [] c = "D" -> 68
      [] c = "F" -> 70
      [] c = "\\" -> 92
      [] c = "a" -> 97
      [] c = "b" -> 98
      [] c = "d" -> 100
      [] c = "f" -> 102
      [] c = "x" -> 120
      [] c = "z" -> 122
      [] OTHER -> 127

RECURSIVE StrLess(_, _)
StrLess(s, t) ==
    IF t = <<>> THEN FALSE
    ELSE IF s = <<>> THEN TRUE
    ELSE IF Code(Head(s)) # Code(Head(t)) THEN Code(Head(s)) < Code(Head(t))
    ELSE StrLess(Tail(s), Tail(t))

StrLeq(s, t) == s = t \/ StrLess(s, t)

RECURSIVE InsertSorted(_, _)
InsertSorted(x, seq) ==
    IF seq = <<>> THEN <<x>>
    ELSE IF StrLeq(x, Head(seq)) THEN <<x>> \o seq
    ELSE <<Head(seq)>> \o InsertSorted(x, Tail(seq))

\* sorted(list of str)
RECURSIVE sorted(_)
sorted(seq) == IF seq = <<>> THEN <<>> ELSE InsertSorted(Head(seq), sorted(Tail(seq)))

(***************************************************************************)
(* Archive members: content, size and digest                               *)
(***************************************************************************)
\* file_size of a member holding content c
SizeOf(c) == c * 512

\* hexdigest() of a member holding content c: lower-case hex, one per content
DigitOf(c) == CASE c = 1 -> "1" [] c = 2 -> "2" [] OTHER -> "0"
Digest(c) == <<"d", DigitOf(c)>>

Some(x) == <<x>>
Nothing == <<>>

(***************************************************************************)
(* ManifestEntry.from_manifest and _read_manifest                          *)
(***************************************************************************)
EntryErr(kind) == [kind |-> kind, member |-> <<>>, size |-> Nothing, sha256 |-> Nothing]

\* mutant: the present flag is not looked at
from_manifest_ignorePresent(rec) ==
    IF rec.name = Nothing \/ strip(rec.name[1]) = <<>> THEN EntryErr("MissingName")
    ELSE LET m == ensure_safe_member(rec.name[1])
             sha == IF rec.sha256 = Nothing THEN Nothing
                    ELSE IF lower(strip(rec.sha256[1])) = <<>> THEN Nothing
                    ELSE Some(lower(strip(rec.sha256[1])))
         IN  IF ~m.ok THEN EntryErr(m.err)
             ELSE IF rec.size # Nothing /\ rec.size[1] < 0 THEN EntryErr("BadSize")
             ELSE [kind |-> "entry", member |-> m.val, size |-> rec.size, sha256 |-> sha]

\* "skip" for present=false, "entry" for a ManifestEntry, else the error raised
from_manifest(rec) ==
    IF rec.present = FALSE THEN EntryErr("skip")
    ELSE IF rec.name = Nothing \/ strip(rec.name[1]) = <<>> THEN EntryErr("MissingName")
    ELSE LET m == ensure_safe_member(rec.name[1])
             sha == IF rec.sha256 = Nothing THEN Nothing
                    ELSE IF lower(strip(rec.sha256[1])) = <<>> THEN Nothing
                    ELSE Some(lower(strip(rec.sha256[1])))
         IN  IF ~m.ok THEN EntryErr(m.err)
             ELSE IF rec.size # Nothing /\ rec.size[1] < 0 THEN EntryErr("BadSize")
             ELSE [kind |-> "entry", member |-> m.val, size |-> rec.size, sha256 |-> sha]

ToEntry(e) == [member |-> e.member, size |-> e.size, sha256 |-> e.sha256]

\* the entries of files[1..n], or the first error met in manifest order
RECURSIVE read_files(_, _)
read_files(files, n) ==
    IF n = 0 THEN [err |-> None, entries |-> <<>>]
    ELSE LET before == read_files(files, n - 1)
             e == from_manifest(files[n])
         IN  IF before.err # None THEN before
             ELSE IF e.kind = "skip" THEN before
             ELSE IF e.kind = "entry"
                  THEN [err |-> None, entries |-> Append(before.entries, ToEntry(e))]
             ELSE [err |-> e.kind, entries |-> <<>>]

read_manifest(man) ==
    IF man.kind = "badjson" THEN [err |-> "ManifestInvalid", entries |-> <<>>]
    ELSE read_files(man.files, Len(man.files))

(***************************************************************************)
(* _ensure_members_present, ManifestEntry.verify, findings                 *)
(***************************************************************************)
Members(ents) == [i \in 1..Len(ents) |-> ents[i].member]

\* mutant: only the first missing member is reported
ensure_members_present_first(names, ents) ==
    LET absent(m) == m \notin names
        all == sorted(SelectSeq(Members(ents), absent))
    IN  IF all = <<>> THEN <<>> ELSE <<all[1]>>

\* the sorted list of missing members; the caller raises when it is not empty
ensure_members_present(names, ents) ==
    LET absent(m) == m \notin names
    IN  sorted(SelectSeq(Members(ents), absent))

SizeFinding(e, got) == [member |-> e.member, what |-> "Size mismatch",
                        expected |-> e.size, got |-> Some(got)]
MissingHashFinding(e) == [member |-> e.member, what |-> "Manifest missing SHA-256",
                          expected |-> Nothing, got |-> Nothing]
HashFinding(e, got) == [member |-> e.member, what |-> "SHA-256 mismatch",
                        expected |-> e.sha256, got |-> Some(got)]

\* mutant: a size mismatch ends the entry's verification
verify_stopAtSize(e, c) ==
    IF e.size # Nothing /\ SizeOf(c) # e.size[1]
    THEN [findings |-> <<SizeFinding(e, SizeOf(c))>>, hashed |-> FALSE]
    ELSE IF e.sha256 = Nothing
         THEN [findings |-> <<MissingHashFinding(e)>>, hashed |-> FALSE]
         ELSE [findings |-> (IF Digest(c) # e.sha256[1]
                             THEN <<HashFinding(e, Digest(c))>> ELSE <<>>),
               hashed |-> TRUE]

\* mutant: the digest is computed but a difference is not reported
verify_noHashCheck(e, c) ==
    LET sizeF == IF e.size # Nothing /\ SizeOf(c) # e.size[1]
                 THEN <<SizeFinding(e, SizeOf(c))>> ELSE <<>>
    IN  IF e.sha256 = Nothing
        THEN [findings |-> sizeF \o <<MissingHashFinding(e)>>, hashed |-> FALSE]
        ELSE [findings |-> sizeF, hashed |-> TRUE]

\* ManifestEntry.verify on the member's content c: the findings it yields and
\* whether the member's bytes were hashed
verify(e, c) ==
    LET sizeF == IF e.size # Nothing /\ SizeOf(c) # e.size[1]
                 THEN <<SizeFinding(e, SizeOf(c))>> ELSE <<>>
    IN  IF e.sha256 = Nothing
        THEN [findings |-> sizeF \o <<MissingHashFinding(e)>>, hashed |-> FALSE]
        ELSE [findings |-> sizeF \o (IF Digest(c) # e.sha256[1]
                                      THEN <<HashFinding(e, Digest(c))>> ELSE <<>>),
              hashed |-> TRUE]

Header == [member |-> <<>>, what |-> "Integrity verification found issues:",
           expected |-> Nothing, got |-> Nothing]

\* mutant: the mode is compared with the wrong literal and nothing is raised
handle_verification_findings_noRaise(md, fnd) ==
    [raise |-> md = "error", message |-> <<Header>> \o fnd]

\* mutant: findings are raised whatever the mode
handle_verification_findings_alwaysRaise(md, fnd) ==
    [raise |-> TRUE, message |-> <<Header>> \o fnd]

\* the message built by _handle_verification_findings, one line per finding
\* after the header line, and whether it is raised
handle_verification_findings(md, fnd) ==
    [raise |-> md = "ERROR", message |-> <<Header>> \o fnd]

(***************************************************************************)
(* ZipFile.extractall: the file a member is written to under the target    *)
(***************************************************************************)
ValidPart(p) == p \notin {<<>>, <<".">>, DotDot}

\* zipfile drops '', '.' and '..' pieces of the archive name
extract_path(member) == join(SelectSeq(split(member, "/"), ValidPart), "/")

Put(f, k, v) == [x \in (DOMAIN f) \cup {k} |-> IF x = k THEN v ELSE f[x]]

(***************************************************************************)
(* Inputs of expand_and_verify                                             *)
(***************************************************************************)
MaxEntries == 2

Modes == {"NONE", "WARN", "ERROR"}

NameA == <<"a">>
NameB == <<"b">>
NameDotA == <<".", "/", "a">>
NameZ == <<"z">>

\* names an archive may list, and the contents a member may hold
ArchNames == {NameA, NameB, NameDotA}
ContentsOf(n) == IF n = NameB THEN {2} ELSE {1, 2}

ZipArchives ==
    { [kind |-> "zip", members |-> f] :
        f \in UNION { { g \in [S -> {1, 2}] : \A n \in S : g[n] \in ContentsOf(n) } :
                      S \in SUBSET ArchNames } }

NoMembers == [n \in {} |-> 1]

Archives == ZipArchives \cup { [kind |-> "nofile", members |-> NoMembers],
                               [kind |-> "badzip", members |-> NoMembers] }

\* raw records of the manifest's "files" array
RawRecords ==
    { [present |-> TRUE, name |-> Some(<<"a">>), size |-> Some(512),
       sha256 |-> Some(<<" ", "D", "1">>)],
      [present |-> TRUE, name |-> Some(<<" ", "a">>), size |-> Nothing,
       sha256 |-> Some(<<"d", "2">>)],
      [present |-> TRUE, name |-> Some(<<"b">>), size |-> Some(1024),
       sha256 |-> Some(<<" ">>)],
      [present |-> TRUE, name |-> Some(<<".", "\\", "a">>), size |-> Some(512),
       sha256 |-> Some(<<"d", "1">>)],
      [present |-> FALSE, name |-> Some(<<"b">>), size |-> Nothing,
       sha256 |-> Nothing],
      [present |-> TRUE, name |-> Some(<<".", ".", "/", "a">>), size |-> Nothing,
       sha256 |-> Nothing] }

SeqsUpTo(S, n) == UNION { [1..k -> S] : k \in 0..n }

Manifests ==
    { [kind |-> "json", files |-> f] : f \in SeqsUpTo(RawRecords, MaxEntries) }
    \cup { [kind |-> "nofile", files |-> <<>>], [kind |-> "badjson", files |-> <<>>] }

NoFiles == [p \in {} |-> 1]

\* the target directory before the call: absent, or holding two older files
Targets ==
    { [exists |-> FALSE, files |-> NoFiles],
      [exists |-> TRUE, files |-> [p \in {NameA, NameZ} |-> 3]] }

(***************************************************************************)
(* expand_and_verify, one action per step                                  *)
(***************************************************************************)
Raise(kind, info) ==
    /\ outcome' = kind
    /\ errinfo' = info
    /\ pc' = "done"

\* lines 86-94: both files must exist, the manifest is read, and an empty
\* entry list returns at once
ReadInputs ==
    /\ pc = "start"
    /\ LET r == read_manifest(manifest)
       IN  IF archive.kind = "nofile" THEN Raise("ArchiveNotFound", <<>>) /\ entries' = entries
           ELSE IF manifest.kind = "nofile" THEN Raise("ManifestNotFound", <<>>) /\ entries' = entries
           ELSE IF r.err # None THEN Raise(r.err, <<>>) /\ entries' = entries
           ELSE IF r.entries = <<>> THEN Raise("ok", <<>>) /\ entries' = entries
           ELSE /\ entries' = r.entries
                /\ pc' = "open"
                /\ UNCHANGED <<outcome, errinfo>>
    /\ UNCHANGED <<archive, manifest, mode, dry_run, fs0, fs, idx, findings,
                   hashed, sized, extracted, warned>>
    /\ UNCHANGED <<pathVars, replaceVars, preseedVars, runVars>>

\* mutant: BadZipFile is swallowed and the archive read as empty
OpenZip_swallow ==
    /\ pc = "open"
    /\ pc' = "present"
    /\ UNCHANGED <<outcome, errinfo>>
    /\ UNCHANGED <<archive, manifest, mode, dry_run, fs0, fs, entries, idx, findings,
                   hashed, sized, extracted, warned>>
    /\ UNCHANGED <<pathVars, replaceVars, preseedVars, runVars>>

\* line 97 with line 115: zipfile.ZipFile(...) raises BadZipFile
OpenZip ==
    /\ pc = "open"
    /\ IF archive.kind = "badzip" THEN Raise("InvalidZip", <<>>)
       ELSE pc' = "present" /\ UNCHANGED <<outcome, errinfo>>
    /\ UNCHANGED <<archive, manifest, mode, dry_run, fs0, fs, entries, idx, findings,
                   hashed, sized, extracted, warned>>
    /\ UNCHANGED <<pathVars, replaceVars, preseedVars, runVars>>

\* line 98, then the branch of line 100
EnsureMembersPresent ==
    /\ pc = "present"
    /\ LET missing == ensure_members_present(DOMAIN archive.members, entries)
       IN  IF missing # <<>> THEN Raise("ArchiveIncomplete", missing) /\ idx' = idx
           ELSE /\ pc' = IF mode # "NONE" THEN "verify" ELSE "gate"
                /\ idx' = 1
                /\ UNCHANGED <<outcome, errinfo>>
    /\ UNCHANGED <<archive, manifest, mode, dry_run, fs0, fs, entries, findings,
                   hashed, sized, extracted, warned>>
    /\ UNCHANGED <<pathVars, replaceVars, preseedVars, runVars>>

\* one iteration of _verify_entries
VerifyEntry ==
    /\ pc = "verify"
    /\ idx <= Len(entries)
    /\ LET e == entries[idx]
           v == verify(e, archive.members[e.member])
       IN  /\ findings' = findings \o v.findings
           /\ hashed' = IF v.hashed THEN hashed \cup {e.member} ELSE hashed
           /\ sized' = IF e.size # Nothing THEN sized \cup {e.member} ELSE sized
    /\ idx' = idx + 1
    /\ UNCHANGED <<archive, manifest, mode, dry_run, fs0, fs, pc, entries,
                   extracted, outcome, errinfo, warned>>
    /\ UNCHANGED <<pathVars, replaceVars, preseedVars, runVars>>

\* lines 102-105
HandleFindings ==
    /\ pc = "verify"
    /\ idx > Len(entries)
    /\ LET h == handle_verification_findings(mode, findings)
       IN  IF findings # <<>> /\ h.raise
           THEN Raise("IntegrityFailure", h.message) /\ warned' = warned
           ELSE /\ warned' = IF findings # <<>> THEN h.message ELSE warned
                /\ pc' = "gate"
                /\ UNCHANGED <<outcome, errinfo>>
    /\ UNCHANGED <<archive, manifest, mode, dry_run, fs0, fs, entries, idx, findings,
                   hashed, sized, extracted>>
    /\ UNCHANGED <<pathVars, replaceVars, preseedVars, runVars>>

\* lines 107-109
DryRunReturn ==
    /\ pc = "gate"
    /\ dry_run
    /\ Raise("ok", <<>>)
    /\ UNCHANGED <<archive, manifest, mode, dry_run, fs0, fs, entries, idx, findings,
                   hashed, sized, extracted, warned>>
    /\ UNCHANGED <<pathVars, replaceVars, preseedVars, runVars>>

\* mutant: the directory is created and filled whatever dry_run says
MakeTarget_ignoreDryRun ==
    /\ pc = "gate"
    /\ fs' = [fs EXCEPT !.exists = TRUE]
    /\ pc' = "extract"
    /\ idx' = 1
    /\ UNCHANGED <<archive, manifest, mode, dry_run, fs0, entries, findings,
                   hashed, sized, extracted, outcome, errinfo, warned>>
    /\ UNCHANGED <<pathVars, replaceVars, preseedVars, runVars>>

\* line 111
MakeTarget ==
    /\ pc = "gate"
    /\ ~dry_run
    /\ fs' = [fs EXCEPT !.exists = TRUE]
    /\ pc' = "extract"
    /\ idx' = 1
    /\ UNCHANGED <<archive, manifest, mode, dry_run, fs0, entries, findings,
                   hashed, sized, extracted, outcome, errinfo, warned>>
    /\ UNCHANGED <<pathVars, replaceVars, preseedVars, runVars>>

\* line 112, one member of extractall
ExtractMember ==
    /\ pc = "extract"
    /\ idx <= Len(entries)
    /\ LET m == entries[idx].member
       IN  /\ fs' = [fs EXCEPT !.files = Put(fs.files, extract_path(m), archive.members[m])]
           /\ extracted' = extracted \cup {m}
    /\ idx' = idx + 1
    /\ UNCHANGED <<archive, manifest, mode, dry_run, fs0, pc, entries, findings,
                   hashed, sized, outcome, errinfo, warned>>
    /\ UNCHANGED <<pathVars, replaceVars, preseedVars, runVars>>

\* line 113 and the normal return
FinishExtract ==
    /\ pc = "extract"
    /\ idx > Len(entries)
    /\ Raise("ok", <<>>)
    /\ UNCHANGED <<archive, manifest, mode, dry_run, fs0, fs, entries, idx, findings,
                   hashed, sized, extracted, warned>>
    /\ UNCHANGED <<pathVars, replaceVars, preseedVars, runVars>>

(***************************************************************************)
(* backup_cleanup.py: names, versions and rules                            *)
(***************************************************************************)
Digits == {"0", "1", "2", "3", "4", "5", "6", "7", "8", "9"}
Letters == {"a", "b", "c", "d", "e", "f", "g", "h", "i", "j", "k", "l", "m", "n",
            "o", "p", "q", "r", "s", "t", "u", "v", "w", "x", "y", "z"}
\* \w of the regular expression
IsWord(c) == LowerChar(c) \in Letters \/ c \in Digits \/ c = "_"

StrLatest == <<"l", "a", "t", "e", "s", "t">>
StrVsix == <<".", "v", "s", "i", "x">>

\* _VERSION_TOKEN.match(tok): ^(latest|v?\d[\w.\-]*)$ with re.IGNORECASE
VERSION_TOKEN(tok) ==
    LET rest == IF tok # <<>> /\ LowerChar(tok[1]) = "v" THEN Tail(tok) ELSE tok
        numeric(t) == /\ t # <<>>
                      /\ t[1] \in Digits
                      /\ \A i \in 2..Len(t) : IsWord(t[i]) \/ t[i] \in {".", "-"}
    IN  lower(tok) = StrLatest \/ numeric(rest) \/ numeric(tok)

EndsWith(s, suf) ==
    Len(s) >= Len(suf) /\ SubSeq(s, Len(s) - Len(suf) + 1, Len(s)) = suf

NotDotComp(p) == p \notin {<<>>, <<".">>}

\* Path(raw_name).name: the last component, '' when there is none
PathName(s) ==
    LET comps == SelectSeq(split(s, "/"), NotDotComp)
    IN  IF comps = <<>> THEN <<>> ELSE comps[Len(comps)]

NameResult(id, version) == [id |-> id, version |-> version]

\* mutant: the .vsix suffix stays part of the last token
split_name_keepVsix(raw_name) ==
    LET base == PathName(raw_name)
        parts == split(base, "-")
        suffix == parts[Len(parts)]
        ident == lower(join(SubSeq(parts, 1, Len(parts) - 1), "-"))
    IN  IF raw_name = <<>> THEN NameResult(Nothing, Nothing)
        ELSE IF Len(parts) >= 2 /\ VERSION_TOKEN(suffix)
             THEN NameResult(IF ident = <<>> THEN Nothing ELSE Some(ident), Some(lower(suffix)))
        ELSE NameResult(Some(lower(base)), Nothing)

\* _split_name: (identity, version), Nothing standing for None
split_name(raw_name) ==
    LET leaf == PathName(raw_name)
        base == IF EndsWith(lower(leaf), StrVsix) THEN SubSeq(leaf, 1, Len(leaf) - 5) ELSE leaf
        parts == split(base, "-")
        suffix == parts[Len(parts)]
        ident == lower(join(SubSeq(parts, 1, Len(parts) - 1), "-"))
    IN  IF raw_name = <<>> THEN NameResult(Nothing, Nothing)
        ELSE IF Len(parts) >= 2 /\ VERSION_TOKEN(suffix)
             THEN NameResult(IF ident = <<>> THEN Nothing ELSE Some(ident), Some(lower(suffix)))
        ELSE NameResult(Some(lower(base)), Nothing)

\* truthiness of an identity: None and '' are both skipped by the callers
HasIdent(r) == r.id # Nothing /\ r.id[1] # <<>>

\* _normalize_version
normalize_version(value) ==
    IF value = Nothing THEN Nothing
    ELSE IF lower(strip(value[1])) = <<>> THEN Nothing
    ELSE Some(lower(strip(value[1])))

\* _same_version
same_version(a, b) == normalize_version(a) = normalize_version(b)

\* mutant: a rule matches on the name alone
rule_matches_nameOnly(rule, name, version) == name = rule.name

\* _rule_matches
rule_matches(rule, name, version) ==
    IF name # rule.name THEN FALSE
    ELSE IF rule.version = Nothing THEN TRUE
    ELSE same_version(rule.version, version)

\* _normalize_rules: rules without a name are dropped
RECURSIVE normalize_rules(_)
normalize_rules(rules) ==
    IF rules = <<>> THEN <<>>
    ELSE LET name == lower(strip(Head(rules).name))
         IN  IF name = <<>> THEN normalize_rules(Tail(rules))
             ELSE <<[name |-> name, version |-> normalize_version(Head(rules).version)]>>
                  \o normalize_rules(Tail(rules))

\* _load_manifest: the (identity, version) pairs of the present records
RECURSIVE load_manifest(_)
load_manifest(files) ==
    IF files = <<>> THEN <<>>
    ELSE LET f == Head(files)
             r == split_name(IF f.name = Nothing THEN <<>> ELSE f.name[1])
         IN  IF f.present = FALSE THEN load_manifest(Tail(files))
             ELSE IF HasIdent(r) THEN <<[id |-> r.id[1], version |-> r.version]>>
                                      \o load_manifest(Tail(files))
             ELSE load_manifest(Tail(files))

AnyMatch(rules, name, version) ==
    \E i \in 1..Len(rules) : rule_matches(rules[i], name, version)

\* the loop of _select_manifest_entries over entries[1..n]: the dict as a
\* function from identity to version, a later entry replacing an earlier one
RECURSIVE select_loop(_, _, _, _)
select_loop(ents, n, inc, exc) ==
    IF n = 0 THEN [k \in {} |-> Nothing]
    ELSE LET before == select_loop(ents, n - 1, inc, exc)
             e == ents[n]
         IN  IF exc # <<>> /\ AnyMatch(exc, e.id, e.version) THEN before
             ELSE IF inc # <<>> /\ ~AnyMatch(inc, e.id, e.version) THEN before
             ELSE Put(before, e.id, e.version)

\* _select_manifest_entries
select_manifest_entries(ents, include_rules, exclude_rules) ==
    select_loop(ents, Len(ents), normalize_rules(include_rules), normalize_rules(exclude_rules))

\* desired.get(id): None for an absent identity and for a stored None
Wanted(desired, id) == IF id \in DOMAIN desired THEN desired[id] ELSE Nothing

\* mutant: an identity the desired set does not hold counts as a change
changed_absentToo(inst, desired) ==
    LET differs(ext) == ~same_version(Wanted(desired, ext.id), ext.version)
    IN  SelectSeq(inst, differs)

\* _changed
changed(inst, desired) ==
    LET differs(ext) == /\ Wanted(desired, ext.id) # Nothing
                        /\ ~same_version(Wanted(desired, ext.id), ext.version)
    IN  SelectSeq(inst, differs)

(***************************************************************************)
(* backup_cleanup.py: directories                                          *)
(***************************************************************************)
\* Path.resolve() on path components: '..' steps back
RECURSIVE resolve(_)
resolve(p) ==
    IF p = <<>> THEN <<>>
    ELSE LET front == resolve(SubSeq(p, 1, Len(p) - 1))
             last == p[Len(p)]
         IN  IF last = DotDot THEN (IF front = <<>> THEN <<>> ELSE SubSeq(front, 1, Len(front) - 1))
             ELSE Append(front, last)

IsPrefix(a, b) == Len(a) <= Len(b) /\ SubSeq(b, 1, Len(a)) = a

\* _is_within: relative_to succeeds when the parent's components lead the child's
is_within(child, parent) == IsPrefix(resolve(parent), resolve(child))

StrBk == <<"b", "k">>
TargetPath == << <<"t">> >>

Item(kind, data) == [kind |-> kind, data |-> data, whole |-> TRUE]
EmptyDir == Item("dir", 0)
NoItems == [n \in {} |-> EmptyDir]

Drop(f, k) == [x \in (DOMAIN f) \ {k} |-> f[x]]

\* the item's name passes the filters of _scan_extensions
Scannable(items, n) ==
    /\ n[1] # "."
    /\ (items[n].kind = "dir" \/ EndsWith(lower(n), StrVsix))
    /\ HasIdent(split_name(n))

ExtOf(n) == [id |-> split_name(n).id[1], version |-> split_name(n).version, path |-> n]

\* the orders in which iterdir() may list the items of S
Orders(S) == { q \in [1..Cardinality(S) -> S] : \A i, j \in DOMAIN q : q[i] = q[j] => i = j }

\* first free suffix counter of _create_session_dir: 0 is the bare name
\* mutant: the bare name is taken whether it is free or not
FreeCounter_bare(used, c) == c

RECURSIVE FreeCounter(_, _)
FreeCounter(used, c) == IF c \in used THEN FreeCounter(used, c + 1) ELSE c

(***************************************************************************)
(* Inputs of apply_replace_mode                                            *)
(***************************************************************************)
MaxManifest == 2
MaxSessions == 2

RModes == {"NONE", "REPLACE", "CLEAN", "BOGUS"}

StrFoo10 == <<"f", "o", "o", "-", "1", ".", "0">>
StrBar20Vsix == <<"B", "a", "r", "-", "2", ".", "0", ".", "V", "S", "I", "X">>
StrDash10 == <<"-", "1", ".", "0">>
StrDotGit == <<".", "g", "i", "t">>
StrNotes == <<"n", "o", "t", "e", "s">>
StrFoo11Vsix == <<"f", "o", "o", "-", "1", ".", "1", ".", "v", "s", "i", "x">>
StrFoo10Vsix == <<"F", "O", "O", "-", "1", ".", "0", ".", "v", "s", "i", "x">>
StrBarLatest == <<"x", "/", "b", "a", "r", "-", "l", "a", "t", "e", "s", "t">>
StrFoo == <<"f", "o", "o">>

\* what the target directory may hold at its top level
Candidates ==
    [n \in {StrFoo10, StrBar20Vsix, StrDash10, StrDotGit, StrNotes} |->
        CASE n = StrFoo10 -> Item("dir", 1)
          [] n = StrBar20Vsix -> Item("file", 2)
          [] n = StrDash10 -> Item("dir", 3)
          [] n = StrDotGit -> Item("dir", 4)
          [] OTHER -> Item("file", 5)]

Restrict(f, S) == [x \in S |-> f[x]]

BackupOutside == << <<"b">> >>
BackupInside == Append(TargetPath, StrBk)
BackupDirs == {BackupOutside, TargetPath, BackupInside}

OldSession == [n \in {StrFoo10} |-> Item("dir", 7)]
NoSessions == [c \in {} |-> NoItems]

\* temp/manifest.json
RRecords ==
    { [present |-> TRUE, name |-> Some(StrFoo11Vsix)],
      [present |-> TRUE, name |-> Some(StrFoo10Vsix)],
      [present |-> TRUE, name |-> Some(StrBarLatest)],
      [present |-> FALSE, name |-> Some(StrFoo11Vsix)] }

RManifests ==
    { [kind |-> "json", files |-> f] : f \in SeqsUpTo(RRecords, MaxManifest) }
    \cup { [kind |-> "nofile", files |-> <<>>], [kind |-> "badjson", files |-> <<>>] }

IncludeRules ==
    { <<>>,
      << [name |-> <<" ", "F", "o", "o">>, version |-> Nothing] >>,
      << [name |-> <<"z", "e", "d">>, version |-> Nothing] >> }

ExcludeRules ==
    { <<>>,
      << [name |-> StrFoo, version |-> Some(<<"1", ".", "1", " ">>)] >> }

(***************************************************************************)
(* apply_replace_mode, one action per step                                 *)
(***************************************************************************)
Return(kind) ==
    /\ routcome' = kind
    /\ rpc' = "done"

\* the item that backup.mkdir creates at the top level of the target when
\* the backup root is a child of the target
MkdirBackup(t) ==
    IF /\ Len(backup_dir) = Len(TargetPath) + 1
       /\ IsPrefix(TargetPath, backup_dir)
       /\ backup_dir[Len(backup_dir)] \notin DOMAIN t.items
    THEN [t EXCEPT !.items = Put(t.items, backup_dir[Len(backup_dir)], EmptyDir)]
    ELSE t

\* lines 41-51: the mode is validated and the three directories are created
Prepare ==
    /\ rpc = "start"
    /\ IF rmode \notin {"NONE", "REPLACE", "CLEAN"}
       THEN Return("UnsupportedMode") /\ UNCHANGED <<tgt, tmp, bkp, made>>
       ELSE /\ tgt' = MkdirBackup([tgt EXCEPT !.exists = TRUE])
            /\ tmp' = TRUE
            /\ bkp' = [bkp EXCEPT !.exists = TRUE]
            /\ made' = (IF tgt.exists THEN {} ELSE {"target"})
                       \cup (IF tmp THEN {} ELSE {"temp"})
                       \cup (IF bkp.exists THEN {} ELSE {"backup"})
            /\ rpc' = "within"
            /\ UNCHANGED routcome
    /\ UNCHANGED <<rmode, backup_dir, tgt0, bkp0, rman, include, exclude,
                   installed, victims, vidx, session>>
    /\ UNCHANGED <<pathVars, expandVars, preseedVars, runVars>>

\* lines 53-58
CheckWithin ==
    /\ rpc = "within"
    /\ IF is_within(backup_dir, TargetPath) THEN Return("BackupInsideTarget")
       ELSE IF rmode = "NONE" THEN Return("ok")
       ELSE rpc' = "scan" /\ UNCHANGED routcome
    /\ UNCHANGED <<rmode, backup_dir, tgt0, tgt, tmp, bkp0, bkp, rman, include, exclude,
                   installed, victims, vidx, session, made>>
    /\ UNCHANGED <<pathVars, expandVars, preseedVars, runVars>>

\* lines 60-63: _scan_extensions, in whatever order iterdir() lists the items
Scan ==
    /\ rpc = "scan"
    /\ LET S == { n \in DOMAIN tgt.items : Scannable(tgt.items, n) }
       IN  /\ \E q \in Orders(S) : installed' = [i \in 1..Len(q) |-> ExtOf(q[i])]
           /\ IF S = {} THEN Return("ok") ELSE rpc' = "plan" /\ UNCHANGED routcome
    /\ UNCHANGED <<rmode, backup_dir, tgt0, tgt, tmp, bkp0, bkp, rman, include, exclude,
                   victims, vidx, session, made>>
    /\ UNCHANGED <<pathVars, expandVars, preseedVars, runVars>>

\* mutant: CLEAN goes through the version comparison like REPLACE
Plan_cleanCompares ==
    /\ rpc = "plan"
    /\ \E man \in RManifests, inc \in IncludeRules, exc \in ExcludeRules :
          /\ "temp" \in made => man.kind = "nofile"
          /\ rman' = man
          /\ include' = inc
          /\ exclude' = exc
          /\ IF man.kind = "nofile" THEN Return("ManifestNotFound") /\ UNCHANGED victims
             ELSE IF man.kind = "badjson" THEN Return("ManifestInvalid") /\ UNCHANGED victims
             ELSE LET desired == select_manifest_entries(load_manifest(man.files), inc, exc)
                      v == changed(installed, desired)
                  IN  /\ victims' = v
                      /\ IF v = <<>> THEN Return("ok")
                         ELSE rpc' = "session" /\ UNCHANGED routcome
    /\ UNCHANGED <<rmode, backup_dir, tgt0, tgt, tmp, bkp0, bkp, installed, vidx, session, made>>
    /\ UNCHANGED <<pathVars, expandVars, preseedVars, runVars>>

\* lines 65-71: the manifest is loaded, the desired set selected and the
\* victims chosen
Plan ==
    /\ rpc = "plan"
    /\ \E man \in RManifests, inc \in IncludeRules, exc \in ExcludeRules :
          /\ "temp" \in made => man.kind = "nofile"
          /\ rman' = man
          /\ include' = inc
          /\ exclude' = exc
          /\ IF man.kind = "nofile" THEN Return("ManifestNotFound") /\ UNCHANGED victims
             ELSE IF man.kind = "badjson" THEN Return("ManifestInvalid") /\ UNCHANGED victims
             ELSE LET desired == select_manifest_entries(load_manifest(man.files), inc, exc)
                      v == IF rmode = "CLEAN" THEN installed ELSE changed(installed, desired)
                  IN  /\ victims' = v
                      /\ IF v = <<>> THEN Return("ok")
                         ELSE rpc' = "session" /\ UNCHANGED routcome
    /\ UNCHANGED <<rmode, backup_dir, tgt0, tgt, tmp, bkp0, bkp, installed, vidx, session, made>>
    /\ UNCHANGED <<pathVars, expandVars, preseedVars, runVars>>

\* _create_session_dir: the first free name gets a new, empty directory
CreateSession ==
    /\ rpc = "session"
    /\ LET c == FreeCounter(DOMAIN bkp.sessions, 0)
       IN  /\ session' = c
           /\ bkp' = [bkp EXCEPT !.sessions = Put(bkp.sessions, c, NoItems)]
    /\ vidx' = 1
    /\ rpc' = "copy"
    /\ UNCHANGED <<rmode, backup_dir, tgt0, tgt, tmp, bkp0, rman, include, exclude,
                   installed, victims, made, routcome>>
    /\ UNCHANGED <<pathVars, expandVars, preseedVars, runVars>>

VictimName == victims[vidx].path

\* mutant: the copy returns although it is not complete
CopyVictim_partial ==
    /\ rpc = "copy"
    /\ vidx <= Len(victims)
    /\ bkp' = [bkp EXCEPT !.sessions[session] =
                  Put(bkp.sessions[session], VictimName,
                      [tgt.items[VictimName] EXCEPT !.whole = FALSE])]
    /\ rpc' = "remove"
    /\ UNCHANGED <<rmode, backup_dir, tgt0, tgt, tmp, bkp0, rman, include, exclude,
                   installed, victims, vidx, session, made, routcome>>
    /\ UNCHANGED <<pathVars, expandVars, preseedVars, runVars>>

\* copytree / copy2 of the current victim returns
CopyVictim ==
    /\ rpc = "copy"
    /\ vidx <= Len(victims)
    /\ bkp' = [bkp EXCEPT !.sessions[session] =
                  Put(bkp.sessions[session], VictimName, tgt.items[VictimName])]
    /\ rpc' = "remove"
    /\ UNCHANGED <<rmode, backup_dir, tgt0, tgt, tmp, bkp0, rman, include, exclude,
                   installed, victims, vidx, session, made, routcome>>
    /\ UNCHANGED <<pathVars, expandVars, preseedVars, runVars>>

\* mutant: a failed copy still goes on to delete the original
CopyFails_thenRemoves ==
    /\ rpc = "copy"
    /\ vidx <= Len(victims)
    /\ UNCHANGED bkp
    /\ tgt' = [tgt EXCEPT !.items = Drop(tgt.items, VictimName)]
    /\ rpc' = "done"
    /\ routcome' = "CopyFailed"
    /\ UNCHANGED <<rmode, backup_dir, tgt0, tmp, bkp0, rman, include, exclude,
                   installed, victims, vidx, session, made>>
    /\ UNCHANGED <<pathVars, expandVars, preseedVars, runVars>>

\* copytree / copy2 raises, leaving no copy or a partial one
CopyFails ==
    /\ rpc = "copy"
    /\ vidx <= Len(victims)
    /\ \/ UNCHANGED bkp
       \/ bkp' = [bkp EXCEPT !.sessions[session] =
                     Put(bkp.sessions[session], VictimName,
                         [tgt.items[VictimName] EXCEPT !.whole = FALSE])]
    /\ Return("CopyFailed")
    /\ UNCHANGED <<rmode, backup_dir, tgt0, tgt, tmp, bkp0, rman, include, exclude,
                   installed, victims, vidx, session, made>>
    /\ UNCHANGED <<pathVars, expandVars, preseedVars, runVars>>

\* rmtree / unlink of the current victim returns
RemoveVictim ==
    /\ rpc = "remove"
    /\ tgt' = [tgt EXCEPT !.items = Drop(tgt.items, VictimName)]
    /\ vidx' = vidx + 1
    /\ rpc' = "copy"
    /\ UNCHANGED <<rmode, backup_dir, tgt0, tmp, bkp0, bkp, rman, include, exclude,
                   installed, victims, session, made, routcome>>
    /\ UNCHANGED <<pathVars, expandVars, preseedVars, runVars>>

\* mutant: a failed removal puts the victims moved before back in place
RemoveFails_rollback ==
    /\ rpc = "remove"
    /\ tgt' = [tgt EXCEPT !.items =
                  [n \in (DOMAIN tgt.items) \cup {victims[i].path : i \in 1..(vidx - 1)} |->
                      tgt0.items[n]]]
    /\ Return("RemoveFailed")
    /\ UNCHANGED <<rmode, backup_dir, tgt0, tmp, bkp0, bkp, rman, include, exclude,
                   installed, victims, vidx, session, made>>
    /\ UNCHANGED <<pathVars, expandVars, preseedVars, runVars>>

\* rmtree raises part-way through a directory, or unlink raises
RemoveFails ==
    /\ rpc = "remove"
    /\ \/ UNCHANGED tgt
       \/ /\ tgt.items[VictimName].kind = "dir"
          /\ tgt' = [tgt EXCEPT !.items[VictimName].whole = FALSE]
    /\ Return("RemoveFailed")
    /\ UNCHANGED <<rmode, backup_dir, tgt0, tmp, bkp0, bkp, rman, include, exclude,
                   installed, victims, vidx, session, made>>
    /\ UNCHANGED <<pathVars, expandVars, preseedVars, runVars>>

\* the loop of _backup_and_remove is over
FinishBackup ==
    /\ rpc = "copy"
    /\ vidx > Len(victims)
    /\ Return("ok")
    /\ UNCHANGED <<rmode, backup_dir, tgt0, tgt, tmp, bkp0, bkp, rman, include, exclude,
                   installed, victims, vidx, session, made>>
    /\ UNCHANGED <<pathVars, expandVars, preseedVars, runVars>>

(***************************************************************************)
(* remote_server.py: preseed_server                                        *)
(*                                                                         *)
(* The commit directory is [exists, files]; files maps the path of each    *)
(* entry below the directory, as a '/'-joined string, to                   *)
(* [kind, data, x, by]: x stands for the execute bits and by for the call  *)
(* that wrote the file (0: it was there before the first call).            *)
(***************************************************************************)
\* line 44: prefix
StrPrefix ==
    <<"v", "s", "c", "o", "d", "e", "-", "s", "e", "r", "v", "e", "r", "-",
      "l", "i", "n", "u", "x", "-", "x", "6", "4">>

\* line 26: the name of the success marker
StrMarker == <<"0">>
\* lines 68-70: the names of required_files
StrServerSh == <<"s", "e", "r", "v", "e", "r", ".", "s", "h">>
StrNode == <<"n", "o", "d", "e">>
StrBinCodeServer ==
    <<"b", "i", "n", "/", "c", "o", "d", "e", "-", "s", "e", "r", "v", "e", "r">>
StrOld == <<"o", "l", "d">>
StrUpX == <<".", ".", "/", "x">>

FileEntry(data, x, by) == [kind |-> "file", data |-> data, x |-> x, by |-> by]
DirEntry == [kind |-> "dir", data |-> 0, x |-> TRUE, by |-> 0]
NoEntries == [p \in {} |-> DirEntry]

\* original_name.startswith(prefix + "/")
startswith(s, pre) == IsPrefix(pre, s)

\* the path below the directory that pathlib / os.path.join give a relative
\* name: empty and '.' components vanish
tar_path(name) == SelectSeq(split(name, "/"), NotDotComp)

\* the directories above a path, created on the way
Ancestors(comps) == { join(SubSeq(comps, 1, k), "/") : k \in 1..(Len(comps) - 1) }

\* where the operating system lands for a path with '..' components
RECURSIVE normpath(_)
normpath(comps) ==
    IF comps = <<>> THEN <<>>
    ELSE LET front == normpath(SubSeq(comps, 1, Len(comps) - 1))
             last == comps[Len(comps)]
         IN  IF last = DotDot /\ front # <<>> /\ front[Len(front)] # DotDot
             THEN SubSeq(front, 1, Len(front) - 1)
             ELSE Append(front, last)

\* os.path.join(target, name), written relative to the commit directory: a
\* key that starts with '/' or with a '..' component lies outside it
dest_key(name) ==
    IF name # <<>> /\ name[1] = "/"
    THEN <<"/">> \o join(normpath(tar_path(name)), "/")
    ELSE join(normpath(tar_path(name)), "/")

Outside(key) ==
    key # <<>> /\ (key[1] = "/" \/ split(key, "/")[1] = DotDot)

\* t.extract(member, target) for a member whose name is now `name`, in call n
extract(files, name, member, n) ==
    LET comps == normpath(tar_path(name))
        key == dest_key(name)
        above == IF Outside(key) THEN {} ELSE Ancestors(comps)
        withDirs == [p \in (DOMAIN files) \cup above |->
                        IF p \in DOMAIN files THEN files[p] ELSE DirEntry]
    IN  IF comps = <<>> THEN files
        ELSE IF member.isdir
             THEN (IF key \in DOMAIN withDirs THEN withDirs ELSE Put(withDirs, key, DirEntry))
             ELSE Put(withDirs, key, FileEntry(member.data, member.x, n))

\* mutant: the wrapper prefix is not removed
extract_name_verbatim(member) ==
    IF member.name = StrPrefix THEN Nothing ELSE Some(member.name)

\* lines 47-63: the name a member is extracted under, Nothing when it is skipped
extract_name(member) ==
    LET original_name == member.name
    IN  IF member.isdir /\ original_name = StrPrefix THEN Nothing
        ELSE IF startswith(original_name, StrPrefix \o <<"/">>)
             THEN Some(SubSeq(original_name, Len(StrPrefix \o <<"/">>) + 1, Len(original_name)))
        ELSE IF original_name = StrPrefix THEN Nothing
        ELSE Some(original_name)

\* (target / rel).exists()
exists(files, rel) == join(tar_path(rel), "/") \in DOMAIN files

\* lines 67-70
required_files(files) ==
    (IF exists(files, StrServerSh) THEN <<StrServerSh>> ELSE <<>>)
    \o <<StrNode, StrBinCodeServer>>

\* mutant: the mode is left as it is
make_executable_keep(files, rel) == files

\* _make_executable
make_executable(files, rel) == [files EXCEPT ![join(tar_path(rel), "/")].x = TRUE]

\* lines 72-76: the loop over required_files; ok is FALSE when it raised
RECURSIVE validate_loop(_, _, _)
validate_loop(files, req, done) ==
    IF req = <<>> THEN [files |-> files, ok |-> TRUE, done |-> done]
    ELSE IF ~exists(files, Head(req)) THEN [files |-> files, ok |-> FALSE, done |-> done]
    ELSE validate_loop(make_executable(files, Head(req)), Tail(req), Append(done, Head(req)))

(***************************************************************************)
(* Inputs of preseed_server                                                *)
(***************************************************************************)
MaxMembers == 3

Wrapped(s) == StrPrefix \o <<"/">> \o s

TarMember(name, isdir, data) == [name |-> name, isdir |-> isdir, data |-> data, x |-> isdir]

\* the wrapper directory, a file of the wrapper's name, the three files the
\* validation looks for, a member named like the marker, a file outside
\* the wrapper, a member whose name climbs out of the wrapper, and a member
\* of a directory inside the wrapper that has the wrapper's name
MemberKinds ==
    { TarMember(StrPrefix, TRUE, 0),
      TarMember(StrPrefix, FALSE, 6),
      TarMember(Wrapped(StrNode), FALSE, 1),
      TarMember(Wrapped(StrBinCodeServer), FALSE, 2),
      TarMember(Wrapped(StrServerSh), FALSE, 3),
      TarMember(Wrapped(StrMarker), FALSE, 4),
      TarMember(StrNode, FALSE, 5),
      TarMember(Wrapped(StrUpX), FALSE, 10),
      TarMember(Wrapped(Wrapped(StrOld)), FALSE, 11) }

Tarballs ==
    { [kind |-> "gz", members |-> s] : s \in SeqsUpTo(MemberKinds, MaxMembers) }
    \cup { [kind |-> "missing", members |-> <<>>], [kind |-> "bad", members |-> <<>>] }

\* what an interrupted install leaves: files of an older attempt, no marker
PartialFiles ==
    Put(Put(Put(Put(NoEntries, StrOld, FileEntry(8, FALSE, 0)),
                StrNode, FileEntry(9, TRUE, 0)),
            <<"b", "i", "n">>, DirEntry),
        StrBinCodeServer, FileEntry(7, TRUE, 0))

\* the commit directory before the first call: absent, empty, partial, or
\* complete with its marker
CommitDirs ==
    { [exists |-> FALSE, files |-> NoEntries],
      [exists |-> TRUE, files |-> NoEntries],
      [exists |-> TRUE, files |-> PartialFiles],
      [exists |-> TRUE, files |-> Put(Drop(PartialFiles, StrOld), StrMarker, FileEntry(0, FALSE, 0))] }

(***************************************************************************)
(* preseed_server, step by step                                            *)
(***************************************************************************)
SRaise(kind) == spc' = "done" /\ soutcome' = kind

HasMarker(d) == d.exists /\ exists(d.files, StrMarker)

\* mutant: the marker is not looked at
PreseedEnter_noShortCircuit ==
    /\ spc = "start"
    /\ IF tarball.kind = "missing" THEN SRaise("TarballMissing")
       ELSE spc' = "clean" /\ UNCHANGED soutcome
    /\ UNCHANGED <<tarball, target0, entry, target, midx, removed, extracts, chmods,
                   validated, touched, calls, earlier>>
    /\ UNCHANGED <<pathVars, expandVars, replaceVars, runVars>>

\* lines 21-30: the tarball must exist; a marker ends the call at once
PreseedEnter ==
    /\ spc = "start"
    /\ IF tarball.kind = "missing" THEN SRaise("TarballMissing")
       ELSE IF HasMarker(target) THEN SRaise("ok")
       ELSE spc' = "clean" /\ UNCHANGED soutcome
    /\ UNCHANGED <<tarball, target0, entry, target, midx, removed, extracts, chmods,
                   validated, touched, calls, earlier>>
    /\ UNCHANGED <<pathVars, expandVars, replaceVars, runVars>>

\* mutant: the partial directory is kept and installed over
RemovePartial_keep ==
    /\ spc = "clean"
    /\ spc' = "mkdir"
    /\ UNCHANGED <<tarball, target0, entry, target, midx, removed, extracts, chmods,
                   validated, touched, calls, earlier, soutcome>>
    /\ UNCHANGED <<pathVars, expandVars, replaceVars, runVars>>

\* lines 33-34: a directory without marker is removed recursively
RemovePartial ==
    /\ spc = "clean"
    /\ IF target.exists /\ ~exists(target.files, StrMarker)
       THEN /\ target' = [exists |-> FALSE,
                        files |-> Restrict(target.files,
                                           { p \in DOMAIN target.files : Outside(p) })]
            /\ removed' = TRUE
       ELSE UNCHANGED <<target, removed>>
    /\ spc' = "mkdir"
    /\ UNCHANGED <<tarball, target0, entry, midx, extracts, chmods,
                   validated, touched, calls, earlier, soutcome>>
    /\ UNCHANGED <<pathVars, expandVars, replaceVars, runVars>>

\* line 36: target.mkdir(parents=True, exist_ok=True)
MakeCommitDir ==
    /\ spc = "mkdir"
    /\ target' = [target EXCEPT !.exists = TRUE]
    /\ spc' = "open"
    /\ UNCHANGED <<tarball, target0, entry, midx, removed, extracts, chmods,
                   validated, touched, calls, earlier, soutcome>>
    /\ UNCHANGED <<pathVars, expandVars, replaceVars, runVars>>

\* lines 41-44: tarfile.open and getmembers
OpenTarball ==
    /\ spc = "open"
    /\ IF tarball.kind = "bad" THEN SRaise("TarballUnreadable") /\ UNCHANGED midx
       ELSE spc' = "extract" /\ midx' = 1 /\ UNCHANGED soutcome
    /\ UNCHANGED <<tarball, target0, entry, target, removed, extracts, chmods,
                   validated, touched, calls, earlier>>
    /\ UNCHANGED <<pathVars, expandVars, replaceVars, runVars>>

\* lines 46-63: one turn of the loop over the members
ExtractTarMember ==
    /\ spc = "extract"
    /\ midx <= Len(tarball.members)
    /\ LET member == tarball.members[midx]
           name == extract_name(member)
       IN  IF name = Nothing THEN UNCHANGED <<target, extracts>>
           ELSE /\ target' = [target EXCEPT !.files = extract(target.files, name[1], member, calls)]
                /\ extracts' = Append(extracts, dest_key(name[1]))
    /\ midx' = midx + 1
    /\ UNCHANGED <<tarball, target0, entry, spc, removed, chmods,
                   validated, touched, calls, earlier, soutcome>>
    /\ UNCHANGED <<pathVars, expandVars, replaceVars, runVars>>

\* t.extract raises: nothing of the member is written, or a truncated file
ExtractTarFails ==
    /\ spc = "extract"
    /\ midx <= Len(tarball.members)
    /\ LET member == tarball.members[midx]
           name == extract_name(member)
       IN  /\ name # Nothing
           /\ \/ UNCHANGED target
              \/ /\ ~member.isdir
                 /\ target' = [target EXCEPT !.files =
                                  extract(target.files, name[1], [member EXCEPT !.data = 0], calls)]
           /\ extracts' = Append(extracts, dest_key(name[1]))
    /\ SRaise("ExtractFailed")
    /\ UNCHANGED <<tarball, target0, entry, midx, removed, chmods,
                   validated, touched, calls, earlier>>
    /\ UNCHANGED <<pathVars, expandVars, replaceVars, runVars>>

\* lines 65-76: the required files are looked up and made executable in turn
Validate ==
    /\ spc = "extract"
    /\ midx > Len(tarball.members)
    /\ LET v == validate_loop(target.files, required_files(target.files), <<>>)
       IN  /\ target' = [target EXCEPT !.files = v.files]
           /\ chmods' = v.done
           /\ validated' = v.ok
           /\ IF v.ok THEN spc' = "mark" /\ UNCHANGED soutcome
              ELSE SRaise("IncompleteInstall")
    /\ UNCHANGED <<tarball, target0, entry, midx, removed, extracts,
                   touched, calls, earlier>>
    /\ UNCHANGED <<pathVars, expandVars, replaceVars, runVars>>

\* lines 80-87: success_marker.touch() creates the file when there is none
TouchMarker ==
    /\ spc = "mark"
    /\ target' = [target EXCEPT !.files =
                     IF StrMarker \in DOMAIN target.files THEN target.files
                     ELSE Put(target.files, StrMarker, FileEntry(0, FALSE, calls))]
    /\ touched' = TRUE
    /\ SRaise("ok")
    /\ UNCHANGED <<tarball, target0, entry, midx, removed, extracts, chmods,
                   validated, calls, earlier>>
    /\ UNCHANGED <<pathVars, expandVars, replaceVars, runVars>>

\* the deployer runs a second time with the same commit and the same tarball
Reinvoke ==
    /\ spc = "done"
    /\ earlier = <<>>
    /\ earlier' = Append(earlier, [outcome |-> soutcome, dir |-> target])
    /\ calls' = calls + 1
    /\ entry' = target
    /\ spc' = "start"
    /\ midx' = 1
    /\ removed' = FALSE
    /\ extracts' = <<>>
    /\ chmods' = <<>>
    /\ validated' = FALSE
    /\ touched' = FALSE
    /\ soutcome' = "running"
    /\ UNCHANGED <<tarball, target0, target>>
    /\ UNCHANGED <<pathVars, expandVars, replaceVars, runVars>>

(***************************************************************************)
(* Specifications                                                          *)
(***************************************************************************)
PathChars == {"a", ".", "/", "\\", ":", " "}
MaxLen == 4

PathIdle ==
    /\ raw = <<>>
    /\ res = Fail(None)
    /\ ppc = "idle"

ExpandIdle ==
    /\ archive = [kind |-> "nofile", members |-> NoMembers]
    /\ manifest = [kind |-> "nofile", files |-> <<>>]
    /\ mode = "NONE"
    /\ dry_run = TRUE
    /\ fs0 = [exists |-> FALSE, files |-> NoFiles]
    /\ fs = fs0
    /\ pc = "idle"
    /\ entries = <<>>
    /\ idx = 1
    /\ findings = <<>>
    /\ hashed = {}
    /\ sized = {}
    /\ extracted = {}
    /\ outcome = "running"
    /\ errinfo = <<>>
    /\ warned = <<>>

ReplaceIdle ==
    /\ rmode = "NONE"
    /\ backup_dir = BackupOutside
    /\ tgt0 = [exists |-> FALSE, items |-> NoItems]
    /\ tgt = tgt0
    /\ tmp = FALSE
    /\ bkp0 = [exists |-> FALSE, sessions |-> NoSessions]
    /\ bkp = bkp0
    /\ rman = [kind |-> "nofile", files |-> <<>>]
    /\ include = <<>>
    /\ exclude = <<>>
    /\ rpc = "idle"
    /\ installed = <<>>
    /\ victims = <<>>
    /\ vidx = 1
    /\ session = -1
    /\ made = {}
    /\ routcome = "running"

PreseedIdle ==
    /\ tarball = [kind |-> "missing", members |-> <<>>]
    /\ target0 = [exists |-> FALSE, files |-> NoEntries]
    /\ entry = target0
    /\ target = target0
    /\ spc = "idle"
    /\ midx = 1
    /\ removed = FALSE
    /\ extracts = <<>>
    /\ chmods = <<>>
    /\ validated = FALSE
    /\ touched = FALSE
    /\ calls = 1
    /\ earlier = <<>>
    /\ soutcome = "running"

RunIdle ==
    /\ runpc = "idle"
    /\ cli_installed = {}

\* _ensure_safe_member applied to one raw string
CallEnsureSafeMember ==
    /\ ppc = "call"
    /\ res' = ensure_safe_member(raw)
    /\ ppc' = "done"
    /\ UNCHANGED raw
    /\ UNCHANGED <<expandVars, replaceVars, preseedVars, runVars>>

InitPath ==
    /\ raw \in SeqsUpTo(PathChars, MaxLen)
    /\ res = Fail(None)
    /\ ppc = "call"
    /\ ExpandIdle
    /\ ReplaceIdle
    /\ PreseedIdle
    /\ RunIdle

NextPath == CallEnsureSafeMember

SpecPath == InitPath /\ [][NextPath]_vars

InitExpand ==
    /\ PathIdle
    /\ ReplaceIdle
    /\ PreseedIdle
    /\ RunIdle
    /\ archive \in Archives
    /\ manifest \in Manifests
    /\ mode \in Modes
    /\ dry_run \in BOOLEAN
    /\ fs0 \in Targets
    /\ fs = fs0
    /\ pc = "start"
    /\ entries = <<>>
    /\ idx = 1
    /\ findings = <<>>
    /\ hashed = {}
    /\ sized = {}
    /\ extracted = {}
    /\ outcome = "running"
    /\ errinfo = <<>>
    /\ warned = <<>>

NextExpand ==
    \/ ReadInputs
    \/ OpenZip
    \/ EnsureMembersPresent
    \/ VerifyEntry
    \/ HandleFindings
    \/ DryRunReturn
    \/ MakeTarget
    \/ ExtractMember
    \/ FinishExtract

SpecExpand == InitExpand /\ [][NextExpand]_vars

\* the target directories a call may find: none, or any choice of the
\* candidate items, with the backup root among them when it lies inside
TargetsFor(bdir) ==
    { [exists |-> FALSE, items |-> NoItems] }
    \cup { [exists |-> TRUE, items |-> Restrict(Candidates, S)] : S \in SUBSET DOMAIN Candidates }
    \cup (IF bdir = BackupInside
          THEN { [exists |-> TRUE, items |-> Put(Restrict(Candidates, S), StrBk, Item("dir", 6))] :
                    S \in SUBSET DOMAIN Candidates }
          ELSE {})

\* the backup roots that go with a target: the target itself, one of its
\* items, or a directory elsewhere with up to MaxSessions earlier sessions
BackupRootsFor(bdir, t) ==
    IF bdir = TargetPath THEN { [exists |-> t.exists, sessions |-> NoSessions] }
    ELSE IF bdir = BackupInside
         THEN { [exists |-> StrBk \in DOMAIN t.items, sessions |-> NoSessions] }
    ELSE { [exists |-> FALSE, sessions |-> NoSessions] }
         \cup { [exists |-> TRUE, sessions |-> [c \in 0..(k - 1) |-> OldSession]] :
                  k \in 0..MaxSessions }

InitReplace ==
    /\ PathIdle
    /\ ExpandIdle
    /\ PreseedIdle
    /\ RunIdle
    /\ rmode \in RModes
    /\ backup_dir \in BackupDirs
    /\ tgt0 \in TargetsFor(backup_dir)
    /\ tgt = tgt0
    /\ tmp \in BOOLEAN
    /\ bkp0 \in BackupRootsFor(backup_dir, tgt0)
    /\ bkp = bkp0
    /\ rman = [kind |-> "nofile", files |-> <<>>]
    /\ include = <<>>
    /\ exclude = <<>>
    /\ rpc = "start"
    /\ installed = <<>>
    /\ victims = <<>>
    /\ vidx = 1
    /\ session = -1
    /\ made = {}
    /\ routcome = "running"

NextReplace ==
    \/ Prepare
    \/ CheckWithin
    \/ Scan
    \/ Plan
    \/ CreateSession
    \/ CopyVictim
    \/ CopyFails
    \/ RemoveVictim
    \/ RemoveFails
    \/ FinishBackup

SpecReplace == InitReplace /\ [][NextReplace]_vars

InitPreseed ==
    /\ PathIdle
    /\ ExpandIdle
    /\ ReplaceIdle
    /\ RunIdle
    /\ tarball \in Tarballs
    /\ target0 \in CommitDirs
    /\ entry = target0
    /\ target = target0
    /\ spc = "start"
    /\ midx = 1
    /\ removed = FALSE
    /\ extracts = <<>>
    /\ chmods = <<>>
    /\ validated = FALSE
    /\ touched = FALSE
    /\ calls = 1
    /\ earlier = <<>>
    /\ soutcome = "running"

NextPreseed ==
    \/ PreseedEnter
    \/ RemovePartial
    \/ MakeCommitDir
    \/ OpenTarball
    \/ ExtractTarMember
    \/ ExtractTarFails
    \/ Validate
    \/ TouchMarker
    \/ Reinvoke

SpecPreseed == InitPreseed /\ [][NextPreseed]_vars

(***************************************************************************)
(* orchestrator.py: run(), lines 91-128                                    *)
(*                                                                         *)
(* The three calls of steps 5 to 8 in the order of the source.  The three  *)
(* directories exist (ensure_paths, lines 23-28) and temp holds            *)
(* extensions.zip and manifest.json (lines 40-46).  tgt is the target      *)
(* directory as apply_replace_mode works on it, fs the same directory from *)
(* the start of expand_and_verify on.                                      *)
(***************************************************************************)
\* the records of temp/manifest.json in a run
RunRecords ==
    { [present |-> TRUE, name |-> Some(StrFoo11Vsix), size |-> Some(512),
       sha256 |-> Some(<<"d", "1">>)],
      [present |-> TRUE, name |-> Some(StrFoo10Vsix), size |-> Nothing,
       sha256 |-> Nothing],
      [present |-> TRUE, name |-> Some(StrBarLatest), size |-> Some(512),
       sha256 |-> Nothing] }

RunManifests ==
    { [kind |-> "json", files |-> f] : f \in SeqsUpTo(RunRecords, MaxManifest) }
    \cup { [kind |-> "badjson", files |-> <<>>] }

\* temp/extensions.zip in a run
RunArchives ==
    { [kind |-> "zip", members |-> f] :
        f \in UNION { { g \in [S -> {1, 2}] : \A n \in S \ {StrFoo11Vsix} : g[n] = 1 } :
                      S \in SUBSET {StrFoo11Vsix, StrBarLatest} } }
    \cup { [kind |-> "badzip", members |-> NoMembers] }

\* the target directory in a run
RunTargets ==
    { [exists |-> TRUE, items |-> Restrict(Candidates, S)] :
        S \in SUBSET {StrFoo10, StrBar20Vsix} }

\* the backup root in a run: empty, or holding one session of the same name
RunBackups ==
    { [exists |-> TRUE, sessions |-> NoSessions],
      [exists |-> TRUE, sessions |-> [c \in {0} |-> OldSession]] }

\* temp/manifest.json as _load_manifest reads it: the "present" and "name"
\* keys of each record
ManifestSeen ==
    [kind |-> manifest.kind,
     files |-> [i \in DOMAIN manifest.files |->
                  [present |-> manifest.files[i].present, name |-> manifest.files[i].name]]]

\* the target directory as expand_and_verify finds it
DirView(t) == [exists |-> t.exists, files |-> [n \in DOMAIN t.items |-> t.items[n].data]]

\* lines 65-71 of apply_replace_mode inside a run: the manifest is the file
\* the run fetched
RunPlan ==
    /\ rman' = ManifestSeen
    /\ Plan

\* mutant: expand_and_verify is called before apply_replace_mode has returned
CallExpand_early ==
    /\ runpc = "replace"
    /\ rpc \in {"session", "done"}
    /\ rpc = "done" => routcome = "ok"
    /\ runpc' = "expand"
    /\ pc' = "start"
    /\ fs0' = DirView(tgt)
    /\ fs' = DirView(tgt)
    /\ UNCHANGED <<archive, manifest, mode, dry_run, entries, idx, findings,
                   hashed, sized, extracted, outcome, errinfo, warned>>
    /\ UNCHANGED cli_installed
    /\ UNCHANGED <<pathVars, replaceVars, preseedVars>>

\* lines 92-110: apply_replace_mode has returned and expand_and_verify is
\* called on the same target directory
CallExpand ==
    /\ runpc = "replace"
    /\ rpc = "done"
    /\ routcome = "ok"
    /\ runpc' = "expand"
    /\ pc' = "start"
    /\ fs0' = DirView(tgt)
    /\ fs' = DirView(tgt)
    /\ UNCHANGED <<archive, manifest, mode, dry_run, entries, idx, findings,
                   hashed, sized, extracted, outcome, errinfo, warned>>
    /\ UNCHANGED cli_installed
    /\ UNCHANGED <<pathVars, replaceVars, preseedVars>>

\* target_path / vsix_file
vsix_path(name) == join(SelectSeq(split(name, "/"), NotDotComp), "/")

\* install_extensions, lines 231-247: the .vsix names of the manifest that
\* exist under the target directory
VsixFiles ==
    IF manifest.kind # "json" THEN {}
    ELSE { manifest.files[i].name[1] : i \in
             { j \in DOMAIN manifest.files :
                 /\ manifest.files[j].present # FALSE
                 /\ manifest.files[j].name # Nothing
                 /\ EndsWith(manifest.files[j].name[1], StrVsix)
                 /\ vsix_path(manifest.files[j].name[1]) \in DOMAIN fs.files } }

\* lines 112-130: expand_and_verify has returned; install_extensions returns
\* at once on a dry run or without the code CLI, and else runs
\* code --install-extension on each file, which succeeds or not
InstallExtensions ==
    /\ runpc = "expand"
    /\ pc = "done"
    /\ outcome = "ok"
    /\ IF dry_run THEN cli_installed' = {}
       ELSE \E cli \in BOOLEAN, ok \in SUBSET VsixFiles :
               cli_installed' = IF cli THEN ok ELSE {}
    /\ runpc' = "returned"
    /\ UNCHANGED <<pathVars, expandVars, replaceVars, preseedVars>>

\* the exception of apply_replace_mode or of expand_and_verify leaves run()
RunRaises ==
    /\ \/ runpc = "replace" /\ rpc = "done" /\ routcome # "ok"
       \/ runpc = "expand" /\ pc = "done" /\ outcome # "ok"
    /\ runpc' = "raised"
    /\ UNCHANGED cli_installed
    /\ UNCHANGED <<pathVars, expandVars, replaceVars, preseedVars>>

InitRun ==
    /\ PathIdle
    /\ PreseedIdle
    /\ archive \in RunArchives
    /\ manifest \in RunManifests
    /\ mode \in Modes
    /\ dry_run \in BOOLEAN
    /\ fs0 = [exists |-> FALSE, files |-> NoFiles]
    /\ fs = fs0
    /\ pc = "idle"
    /\ entries = <<>>
    /\ idx = 1
    /\ findings = <<>>
    /\ hashed = {}
    /\ sized = {}
    /\ extracted = {}
    /\ outcome = "running"
    /\ errinfo = <<>>
    /\ warned = <<>>
    /\ rmode \in {"NONE", "REPLACE", "CLEAN"}
    /\ backup_dir = BackupOutside
    /\ tgt0 \in RunTargets
    /\ tgt = tgt0
    /\ tmp = TRUE
    /\ bkp0 \in RunBackups
    /\ bkp = bkp0
    /\ rman = [kind |-> "nofile", files |-> <<>>]
    /\ include = <<>>
    /\ exclude = <<>>
    /\ rpc = "start"
    /\ installed = <<>>
    /\ victims = <<>>
    /\ vidx = 1
    /\ session = -1
    /\ made = {}
    /\ routcome = "running"
    /\ runpc = "replace"
    /\ cli_installed = {}

NextRun ==
    \/ Prepare
    \/ CheckWithin
    \/ Scan
    \/ RunPlan
    \/ CreateSession
    \/ CopyVictim
    \/ CopyFails
    \/ RemoveVictim
    \/ RemoveFails
    \/ FinishBackup
    \/ CallExpand
    \/ ReadInputs
    \/ OpenZip
    \/ EnsureMembersPresent
    \/ VerifyEntry
    \/ HandleFindings
    \/ DryRunReturn
    \/ MakeTarget
    \/ ExtractMember
    \/ FinishExtract
    \/ InstallExtensions
    \/ RunRaises

SpecRun == InitRun /\ [][NextRun]_vars

(***************************************************************************)
(* Definitions used to state the properties                                *)
(***************************************************************************)
Seps == {"/", "\\"}

\* t has a segment equal to '..' when both '/' and '\' delimit segments
HasDotDotSegment(t) ==
    \E i \in 1..(Len(t) - 1) :
        /\ t[i] = "." /\ t[i + 1] = "."
        /\ (i = 1 \/ t[i - 1] \in Seps)
        /\ (i + 1 = Len(t) \/ t[i + 2] \in Seps)

\* the maximal runs of characters of t that are not in seps, from position i on
RECURSIVE RunsFrom(_, _, _)
RunsFrom(t, seps, i) ==
    IF i > Len(t) THEN <<>>
    ELSE IF t[i] \in seps THEN RunsFrom(t, seps, i + 1)
    ELSE LET j == CHOOSE k \in i..Len(t) :
                      /\ \A n \in i..k : t[n] \notin seps
                      /\ (k = Len(t) \/ t[k + 1] \in seps)
         IN  <<SubSeq(t, i, j)>> \o RunsFrom(t, seps, j + 1)

RECURSIVE SumLen(_)
SumLen(ss) == IF ss = <<>> THEN 0 ELSE Len(Head(ss)) + SumLen(Tail(ss))

Range(f) == { f[i] : i \in DOMAIN f }

IsSorted(seq) == \A i, j \in 1..Len(seq) : i < j => StrLeq(seq[i], seq[j])

\* the file that target/<member> denotes: '.' and empty segments vanish
NotDot(p) == p \notin {<<>>, <<".">>}
FileAt(member) == join(SelectSeq(split(member, "/"), NotDot), "/")

Loaded == manifest.kind = "json" /\ read_manifest(manifest).err = None
PresentEntries == read_manifest(manifest).entries
PresentMembers == Range(Members(PresentEntries))
MissingMembers == { m \in PresentMembers : m \notin DOMAIN archive.members }

RECURSIVE AllFindings(_)
AllFindings(ents) ==
    IF ents = <<>> THEN <<>>
    ELSE verify(Head(ents), archive.members[Head(ents).member]).findings
         \o AllFindings(Tail(ents))

NothingWritten == fs = fs0 /\ extracted = {}

\* C1: _ensure_safe_member fails exactly when the trimmed input is empty,
\* starts with '/' or '\', contains ':' or has a '..' segment; otherwise it
\* returns the non-empty segments joined by '/', a path that does not start
\* with '/', has no '\', no ':' and no '..' segment; no filesystem state moves.
C1_SafeMember ==
    ppc = "done" =>
        LET t == strip(raw)
            bad == \/ t = <<>>
                   \/ t[1] \in Seps
                   \/ Contains(t, ":")
                   \/ HasDotDotSegment(t)
            v == res.val
            segs == RunsFrom(t, Seps, 1)
        IN  /\ bad <=> ~res.ok
            /\ res.ok =>
                /\ v # <<>>
                /\ RunsFrom(v, {"/"}, 1) = segs
                /\ Len(v) = SumLen(segs) + Len(segs) - 1
                /\ v[1] # "/"
                /\ ~Contains(v, "\\")
                /\ ~Contains(v, ":")
                /\ ~HasDotDotSegment(v)
            /\ fs = fs0
            /\ ~fs.exists

C1_Witness ==
    /\ ppc = "done"
    /\ res.ok
    /\ Contains(raw, "\\")
    /\ Len(res.val) < Len(raw)
    /\ Len(RunsFrom(res.val, {"/"}, 1)) = 2

\* C2: when a present manifest entry names a member the archive does not
\* list, nothing is ever hashed, sized or written, and the call ends with the
\* archive-incomplete error whose list is sorted and holds exactly the missing
\* members, in every verification mode.
C2_MissingMembersAbort ==
    (archive.kind = "zip" /\ Loaded /\ MissingMembers # {}) =>
        /\ hashed = {}
        /\ sized = {}
        /\ findings = <<>>
        /\ NothingWritten
        /\ pc = "done" =>
            /\ outcome = "ArchiveIncomplete"
            /\ Range(errinfo) = MissingMembers
            /\ IsSorted(errinfo)

C2_Witness ==
    /\ pc = "done"
    /\ outcome = "ArchiveIncomplete"
    /\ Cardinality(Range(errinfo)) >= 2
    /\ mode = "NONE"
    /\ DOMAIN archive.members # {}

\* C3: in ERROR mode a non-empty finding list ends the call with one
\* aggregated error holding one line per finding, and the target directory is
\* neither created nor changed and no member is extracted.
C3_ErrorModeBlocks ==
    (mode = "ERROR" /\ findings # <<>>) =>
        /\ NothingWritten
        /\ pc = "done" =>
            /\ outcome = "IntegrityFailure"
            /\ Len(errinfo) = Len(findings) + 1
            /\ \A i \in 1..Len(findings) : errinfo[i + 1] = findings[i]

C3_Witness ==
    /\ pc = "done"
    /\ outcome = "IntegrityFailure"
    /\ Len(findings) >= 2
    /\ ~dry_run
    /\ ~fs0.exists

\* C4: when the checks before verification pass and the run is not a dry run,
\* WARN mode hashes every entry that has a hash, reports the findings as one
\* warning and extracts every present member; NONE mode computes no size and
\* no hash, reports nothing and extracts every present member.
C4_OnlyErrorBlocks ==
    (pc = "done" /\ archive.kind = "zip" /\ Loaded /\ PresentEntries # <<>>
        /\ MissingMembers = {} /\ ~dry_run) =>
        /\ mode = "WARN" =>
            /\ outcome = "ok"
            /\ extracted = PresentMembers
            /\ findings = AllFindings(PresentEntries)
            /\ hashed = { e.member : e \in { x \in Range(PresentEntries) : x.sha256 # Nothing } }
            /\ warned = IF findings = <<>> THEN <<>> ELSE <<Header>> \o findings
        /\ mode = "NONE" =>
            /\ outcome = "ok"
            /\ extracted = PresentMembers
            /\ hashed = {}
            /\ sized = {}
            /\ findings = <<>>
            /\ warned = <<>>

C4_Witness ==
    /\ pc = "done"
    /\ mode = "WARN"
    /\ outcome = "ok"
    /\ Len(findings) >= 2
    /\ warned # <<>>
    /\ Cardinality(extracted) = 2

\* reachable as well: NONE mode extracts a member whose digest is not the
\* manifest's
C4_NoneCase ==
    /\ pc = "done"
    /\ mode = "NONE"
    /\ outcome = "ok"
    /\ \E i \in 1..Len(entries) :
          /\ entries[i].sha256 # Nothing
          /\ entries[i].sha256[1] # Digest(archive.members[entries[i].member])
          /\ entries[i].member \in extracted

\* the normalized member paths of the manifest records not marked
\* present=false
NamedPresent ==
    { ensure_safe_member(manifest.files[i].name[1]).val :
        i \in { k \in 1..Len(manifest.files) : manifest.files[k].present } }

\* C5: only members of manifest records not marked present=false are ever
\* extracted; after a successful run that is not a dry run exactly those
\* members were extracted, each has a file at target/<member>, and every file
\* of the target that no extracted member was written to is as it was.
C5_ExactMemberSet ==
    /\ extracted \subseteq NamedPresent
    /\ extracted \subseteq DOMAIN archive.members
    /\ (pc = "done" /\ outcome = "ok" /\ ~dry_run) =>
        /\ extracted = NamedPresent
        /\ \A m \in NamedPresent :
              /\ FileAt(m) \in DOMAIN fs.files
              /\ \E n \in NamedPresent :
                    FileAt(n) = FileAt(m) /\ fs.files[FileAt(m)] = archive.members[n]
        /\ DOMAIN fs.files = DOMAIN fs0.files \cup { FileAt(m) : m \in NamedPresent }
        /\ \A p \in DOMAIN fs0.files :
              p \notin { FileAt(m) : m \in NamedPresent } => fs.files[p] = fs0.files[p]

C5_Witness ==
    /\ pc = "done"
    /\ outcome = "ok"
    /\ ~dry_run
    /\ extracted # {}
    /\ fs0.exists
    /\ \E i \in 1..Len(manifest.files) :
          /\ ~manifest.files[i].present
          /\ ensure_safe_member(manifest.files[i].name[1]).val \in DOMAIN archive.members
          /\ ensure_safe_member(manifest.files[i].name[1]).val \notin extracted

\* what the checks of expand_and_verify decide, whatever dry_run is
ExpectedOutcome ==
    IF archive.kind = "nofile" THEN "ArchiveNotFound"
    ELSE IF manifest.kind = "nofile" THEN "ManifestNotFound"
    ELSE IF read_manifest(manifest).err # None THEN read_manifest(manifest).err
    ELSE IF PresentEntries = <<>> THEN "ok"
    ELSE IF archive.kind = "badzip" THEN "InvalidZip"
    ELSE IF MissingMembers # {} THEN "ArchiveIncomplete"
    ELSE IF mode = "ERROR" /\ AllFindings(PresentEntries) # <<>> THEN "IntegrityFailure"
    ELSE "ok"

\* C6: the outcome of a call is the one the checks decide, the same with and
\* without dry_run; a dry run reports WARN-mode findings, and at no point of
\* a dry run is the target directory created or any file in it created or
\* changed.
C6_DryRunWritesNothing ==
    /\ pc = "done" => outcome = ExpectedOutcome
    /\ dry_run =>
        /\ NothingWritten
        /\ (pc = "done" /\ outcome = "ok" /\ mode = "WARN" /\ PresentEntries # <<>>
              /\ AllFindings(PresentEntries) # <<>>) =>
                warned = <<Header>> \o AllFindings(PresentEntries)

C6_Witness ==
    /\ pc = "done"
    /\ dry_run
    /\ mode = "WARN"
    /\ outcome = "ok"
    /\ warned # <<>>
    /\ ~fs.exists

\* C7 as stated: an archive that is not a valid ZIP always ends the call with
\* the invalid-archive error.
C7_Original ==
    (pc = "done" /\ archive.kind = "badzip") => outcome = "InvalidZip"

\* C7 amended: when the manifest loads and has a present entry, an archive
\* that is not a valid ZIP ends the call with the invalid-archive error in
\* every mode, and the call never gets to the existence check, to hashing or
\* to a write.
C7_InvalidZip ==
    (archive.kind = "badzip" /\ Loaded /\ PresentEntries # <<>>) =>
        /\ pc \in {"start", "open", "done"}
        /\ hashed = {} /\ sized = {} /\ findings = <<>>
        /\ NothingWritten
        /\ pc = "done" => outcome = "InvalidZip"

C7_Witness ==
    /\ pc = "done"
    /\ archive.kind = "badzip"
    /\ outcome = "InvalidZip"
    /\ mode = "NONE"
    /\ Len(entries) = 2

\* C8 as stated: after a successful extraction the file at target/<member>
\* has the digest of every present entry that carries a sha256.
C8_Original ==
    (pc = "done" /\ outcome = "ok" /\ ~dry_run) =>
        \A i \in 1..Len(entries) :
            entries[i].sha256 # Nothing =>
                /\ FileAt(entries[i].member) \in DOMAIN fs.files
                /\ Digest(fs.files[FileAt(entries[i].member)]) = entries[i].sha256[1]

\* C8 amended: a successful call in ERROR mode had no finding, and after a
\* successful extraction whose verification ran without a finding the file at
\* target/<member> has the entry's digest, for every present entry whose file
\* is not also the file of a differently named present member.
C8_RoundTrip ==
    (pc = "done" /\ outcome = "ok" /\ ~dry_run /\ entries # <<>>) =>
        /\ mode = "ERROR" => findings = <<>>
        /\ (mode # "NONE" /\ findings = <<>>) =>
            \A i \in 1..Len(entries) :
                (\A j \in 1..Len(entries) :
                    FileAt(entries[j].member) = FileAt(entries[i].member)
                        => entries[j].member = entries[i].member) =>
                    /\ entries[i].sha256 # Nothing
                    /\ FileAt(entries[i].member) \in DOMAIN fs.files
                    /\ Digest(fs.files[FileAt(entries[i].member)]) = entries[i].sha256[1]

C8_Witness ==
    /\ pc = "done"
    /\ outcome = "ok"
    /\ ~dry_run
    /\ mode = "ERROR"
    /\ extracted # {}
    /\ \E i \in 1..Len(manifest.files) :
          /\ manifest.files[i].present
          /\ manifest.files[i].sha256 # Nothing
          /\ manifest.files[i].sha256[1] # entries[1].sha256[1]

(***************************************************************************)
(* Properties of apply_replace_mode                                        *)
(***************************************************************************)
\* an installed item: a top-level directory whose name does not start with
\* a dot, or a .vsix file
IsInstalledItem(items, n) ==
    /\ n[1] # "."
    /\ (items[n].kind = "dir" \/ EndsWith(lower(n), StrVsix))

InstalledOf(t) == Restrict(t.items, { n \in DOMAIN t.items : IsInstalledItem(t.items, n) })

\* n was moved into the session directory created by this call
Displaced(n) ==
    /\ session \in DOMAIN bkp.sessions
    /\ session \notin DOMAIN bkp0.sessions
    /\ n \in DOMAIN bkp.sessions[session]
    /\ bkp.sessions[session][n] = tgt0.items[n]
    /\ n \notin DOMAIN tgt.items

\* C9: in mode NONE the installed items of the target directory and their
\* contents are the same after the call as before it, nothing was scanned or
\* chosen, and no session directory was created.
C9_NoneChangesNothing ==
    (rmode = "NONE" /\ rpc = "done") =>
        /\ InstalledOf(tgt) = InstalledOf(tgt0)
        /\ installed = <<>>
        /\ victims = <<>>
        /\ session = -1
        /\ bkp.sessions = bkp0.sessions

\* C10 as stated: after a successful call in mode CLEAN every non-dot
\* directory and every .vsix file that was at the top level of the target is
\* in the session directory created by the call and gone from the target.
C10_Original ==
    (rmode = "CLEAN" /\ rpc = "done" /\ routcome = "ok") =>
        \A n \in DOMAIN tgt0.items : IsInstalledItem(tgt0.items, n) => Displaced(n)

\* C10 amended: after a successful call in mode CLEAN every non-dot directory
\* and every .vsix file of the target whose name gives a non-empty identity
\* is in the session directory created by the call, under its own name and
\* with its content, and gone from the target, whatever the manifest and the
\* rules hold; an item whose name gives no identity stays where it was.
C10_CleanDisplacesAll ==
    (rmode = "CLEAN" /\ rpc = "done" /\ routcome = "ok") =>
        \A n \in DOMAIN tgt0.items :
            /\ (IsInstalledItem(tgt0.items, n) /\ HasIdent(split_name(n))) => Displaced(n)
            /\ ~(IsInstalledItem(tgt0.items, n) /\ HasIdent(split_name(n))) =>
                  (n \in DOMAIN tgt.items /\ tgt.items[n] = tgt0.items[n])

C10_Witness ==
    /\ rmode = "CLEAN"
    /\ rpc = "done"
    /\ routcome = "ok"
    /\ Len(victims) = 2
    /\ session = 1
    /\ include # <<>>
    /\ StrDash10 \in DOMAIN tgt.items

\* the desired set of the call: identity -> version
DesiredSet == select_manifest_entries(load_manifest(rman.files), include, exclude)

\* trimmed, case-insensitive form of an optional version
TrimFold(v) == IF v = Nothing THEN <<>> ELSE lower(strip(v[1]))

\* the desired set holds a version for the identity of item n, and it is not
\* the installed one
VersionDiffers(n) ==
    LET id == split_name(n).id[1]
    IN  /\ id \in DOMAIN DesiredSet
        /\ DesiredSet[id] # Nothing
        /\ TrimFold(DesiredSet[id]) # TrimFold(split_name(n).version)

\* C11: after a successful call in mode REPLACE an installed item is in the
\* new session directory and gone from the target exactly when the desired
\* set holds a version for its identity that differs from the installed one
\* (trimmed, case-insensitive); every other item is unchanged at its path.
C11_ReplaceDisplacesChanged ==
    (rmode = "REPLACE" /\ rpc = "done" /\ routcome = "ok" /\ rman.kind = "json") =>
        \A n \in DOMAIN tgt0.items :
            IF Scannable(tgt0.items, n) /\ VersionDiffers(n)
            THEN Displaced(n)
            ELSE /\ n \in DOMAIN tgt.items
                 /\ tgt.items[n] = tgt0.items[n]
                 /\ \A c \in DOMAIN bkp.sessions :
                       c \notin DOMAIN bkp0.sessions => n \notin DOMAIN bkp.sessions[c]

C11_Witness ==
    /\ rmode = "REPLACE"
    /\ rpc = "done"
    /\ routcome = "ok"
    /\ Displaced(StrFoo10)
    /\ StrBar20Vsix \in DOMAIN tgt.items
    /\ Len(rman.files) = 2
    /\ split_name(rman.files[2].name[1]) = NameResult(Some(StrFoo), Some(<<"1", ".", "1">>))
    /\ split_name(rman.files[1].name[1]).id # Some(StrFoo)

\* C12: a call whose backup_dir resolves to the target directory or to a path
\* inside it ends with the configuration error and has created no directory
\* and changed nothing in the target or under the backup root.
C12_NestedBackupNoMutation ==
    (/\ rpc = "done"
     /\ rmode \in {"NONE", "REPLACE", "CLEAN"}
     /\ is_within(backup_dir, TargetPath)) =>
        /\ routcome = "BackupInsideTarget"
        /\ made = {}
        /\ tgt = tgt0
        /\ bkp = bkp0

\* the original of item n is at its path exactly as before the call
Intact(n) == n \in DOMAIN tgt.items /\ tgt.items[n] = tgt0.items[n]

\* the session directory of this call holds an entry named n
InSession(n) ==
    /\ session \in DOMAIN bkp.sessions
    /\ n \in DOMAIN bkp.sessions[session]

\* the session directory of this call holds a complete copy of item n
CopyComplete(n) ==
    /\ InSession(n)
    /\ bkp.sessions[session][n] = tgt0.items[n]

InBackupLoop == rpc \in {"session", "copy", "remove", "done"} /\ Len(victims) >= 2

\* C13 as stated: once the original of any victim is deleted (or partly
\* deleted), the session directory holds a complete copy of every victim.
C13_Original ==
    (InBackupLoop /\ \E i \in DOMAIN victims : ~Intact(victims[i].path)) =>
        \A j \in DOMAIN victims : CopyComplete(victims[j].path)

\* what the loop does keep: the victims are handled one after another, each
\* copied and then removed; once the original of a victim is touched, the
\* session holds complete copies of that victim and of every victim before
\* it, and every victim whose copy has not started is intact.
BackupLoopOrder ==
    InBackupLoop =>
        \A j \in DOMAIN victims :
            /\ ~Intact(victims[j].path) =>
                  \A i \in 1..j : CopyComplete(victims[i].path)
            /\ j > vidx => /\ Intact(victims[j].path)
                           /\ ~InSession(victims[j].path)

BackupLoopInterleaved ==
    /\ InBackupLoop
    /\ rpc = "copy"
    /\ vidx = 2
    /\ ~Intact(victims[1].path)
    /\ CopyComplete(victims[1].path)
    /\ Intact(victims[2].path)
    /\ ~CopyComplete(victims[2].path)

\* C14: the original of a victim is touched only once the session holds the
\* complete copy of that victim, and when the copy of a victim fails the
\* original of that victim is at its path exactly as before the call.
C14_CopyThenDelete ==
    (rpc \in {"copy", "remove", "done"} /\ Len(victims) >= 1) =>
        /\ \A j \in DOMAIN victims :
               ~Intact(victims[j].path) => CopyComplete(victims[j].path)
        /\ routcome = "CopyFailed" =>
               /\ vidx \in DOMAIN victims
               /\ Intact(victims[vidx].path)
               /\ ~CopyComplete(victims[vidx].path)

C14_Witness ==
    /\ routcome = "CopyFailed"
    /\ vidx = 2
    /\ ~Intact(victims[1].path)
    /\ InSession(victims[2].path)
    /\ ~bkp.sessions[session][victims[2].path].whole
    /\ Intact(victims[2].path)

\* the call found the marker when it started
MarkerOnEntry == entry.exists /\ exists(entry.files, StrMarker)

\* this call changed nothing: no rmtree, no extract, no chmod, no touch
CallDidNothing ==
    /\ target = entry
    /\ ~removed
    /\ extracts = <<>>
    /\ chmods = <<>>
    /\ ~touched

\* C15: a call that finds the completion marker on entry returns the commit
\* directory successfully and has extracted, deleted and modified nothing,
\* whatever the tarball is.
C15_MarkerShortCircuits ==
    (spc = "done" /\ MarkerOnEntry) => (soutcome = "ok" /\ CallDidNothing)

\* entry p of the commit directory is what the tarball puts there: the file
\* written for a member, or a directory on the way to one
FromTarball(p) ==
    \E i \in DOMAIN tarball.members :
        LET member == tarball.members[i]
            name == extract_name(member)
        IN  /\ name # Nothing
            /\ \/ /\ p = dest_key(name[1])
                  /\ target.files[p].kind = (IF member.isdir THEN "dir" ELSE "file")
                  /\ target.files[p].data = member.data
                  /\ member.isdir \/ target.files[p].by = calls
               \/ /\ p \in Ancestors(normpath(tar_path(name[1])))
                  /\ target.files[p] = DirEntry

\* C16: a commit directory found without marker is removed whole before it
\* is created again and before any member is extracted; after a successful
\* call it holds only what the tarball put there plus the marker, and no
\* file of the partial install.
C16_PartialDestroyed ==
    (entry.exists /\ ~MarkerOnEntry) =>
        /\ (spc \in {"mkdir", "open", "extract", "mark"} \/ extracts # <<>> \/ touched) => removed
        /\ spc = "mkdir" => (~target.exists /\ \A p \in DOMAIN target.files : Outside(p))
        /\ (spc = "done" /\ soutcome = "ok") =>
              /\ \A p \in DOMAIN target.files : p = StrMarker \/ FromTarball(p)
              /\ \A p \in DOMAIN target.files :
                    (target.files[p].kind = "file" /\ ~Outside(p)) => target.files[p].by = calls

C16_Witness ==
    /\ spc = "done"
    /\ soutcome = "ok"
    /\ entry.files = PartialFiles
    /\ removed
    /\ StrOld \notin DOMAIN target.files
    /\ target.files[StrNode].data = 1
    /\ touched

\* the file at rel is in the commit directory with its execute bits set
Executable(rel) == exists(target.files, rel) /\ target.files[rel].x

\* every member of the tarball has been through the extraction loop
ExtractionOver ==
    /\ tarball.kind = "gz"
    /\ midx > Len(tarball.members)
    /\ spc \in {"mark", "done"}
    /\ soutcome \in {"running", "ok", "IncompleteInstall"}
    /\ ~MarkerOnEntry

\* C17: once the extraction is over, a missing node or bin/code-server ends
\* the call with the incomplete-install error before the marker is touched,
\* a missing server.sh does not, and a call that passes the validation has
\* node, bin/code-server and, when present, server.sh with execute bits set.
C17_Validation ==
    ExtractionOver =>
        /\ (~exists(target.files, StrNode) \/ ~exists(target.files, StrBinCodeServer)) =>
               (spc = "done" /\ soutcome = "IncompleteInstall" /\ ~validated /\ ~touched)
        /\ (exists(target.files, StrNode) /\ exists(target.files, StrBinCodeServer)) =>
               /\ soutcome # "IncompleteInstall"
               /\ validated
               /\ Executable(StrNode)
               /\ Executable(StrBinCodeServer)
               /\ exists(target.files, StrServerSh) => Executable(StrServerSh)
               /\ spc = "done" => (soutcome = "ok" /\ touched)

C17_Witness ==
    /\ ExtractionOver
    /\ spc = "done"
    /\ soutcome = "ok"
    /\ ~exists(target.files, StrServerSh)
    /\ Executable(StrNode)
    /\ Executable(StrBinCodeServer)
    /\ \E i \in DOMAIN tarball.members :
          tarball.members[i].name = Wrapped(StrNode) /\ ~tarball.members[i].x

\* C18: a call that fails leaves the commit directory absent or without the
\* completion marker.
C18_FailureLeavesNoMarker ==
    (spc = "done" /\ soutcome \notin {"running", "ok"}) => ~HasMarker(target)

\* C19: a marker that was not there when the call started is in the commit
\* directory only once node and bin/code-server have been found and made
\* executable.
C19_MarkerAfterValidation ==
    (HasMarker(target) /\ ~MarkerOnEntry) =>
        (validated /\ Executable(StrNode) /\ Executable(StrBinCodeServer))

\* C20: when a call succeeds, the next call with the same commit and tarball
\* succeeds too, leaves the commit directory as the first call left it, and
\* deletes, extracts and rewrites nothing.
C20_SecondCallIdempotent ==
    (calls >= 2 /\ spc = "done" /\ earlier[calls - 1].outcome = "ok") =>
        /\ soutcome = "ok"
        /\ target = earlier[calls - 1].dir
        /\ CallDidNothing
        /\ \A p \in DOMAIN target.files : target.files[p].by < calls

C20_Witness ==
    /\ calls = 2
    /\ spc = "done"
    /\ soutcome = "ok"
    /\ earlier[1].outcome = "ok"
    /\ ~HasMarker(target0)
    /\ target.files[StrNode].by = 1
    /\ target.files[StrMarker].by = 1

\* a raw rule matches the pair (id, version): its trimmed, lower-cased name
\* is not empty and equals the identity, and it has no version or the same
\* version (trimmed, case-insensitive)
RuleHits(rule, id, version) ==
    LET n == lower(strip(rule.name))
    IN  /\ n # <<>>
        /\ n = id
        /\ (TrimFold(rule.version) = <<>> \/ TrimFold(rule.version) = TrimFold(version))

HitsAny(rules, e) == \E i \in DOMAIN rules : RuleHits(rules[i], e.id, e.version)

GivenRules(rules) == \E i \in DOMAIN rules : lower(strip(rules[i].name)) # <<>>

\* entry e passes the selection: no exclude rule matches it and, when
\* include rules are given, one of them matches it
Qualifies(e) ==
    /\ ~HitsAny(exclude, e)
    /\ GivenRules(include) => HitsAny(include, e)

\* what _load_manifest and _select_manifest_entries give for each manifest
\* and each pair of rule lists
EntriesTable == [m \in RManifests |-> load_manifest(m.files)]
DesiredTable ==
    [m \in RManifests |-> [inc \in IncludeRules |-> [exc \in ExcludeRules |->
        select_manifest_entries(EntriesTable[m], inc, exc)]]]

\* the entries and the desired set of the manifest and rules of this call
ManifestEntries == EntriesTable[rman]
DesiredNow == DesiredTable[rman][include][exclude]

InDesired(desired, e) == e.id \in DOMAIN desired /\ desired[e.id] = e.version

Planned == rman.kind = "json" /\ rpc \in {"session", "copy", "remove", "done"}

\* C21 as stated: a manifest entry (identity, version) is in the desired
\* set exactly when it passes the selection.
C21_Original ==
    Planned =>
        LET ents == ManifestEntries
            desired == DesiredNow
        IN  \A i \in DOMAIN ents : InDesired(desired, ents[i]) <=> Qualifies(ents[i])

\* C21 amended: the desired set maps an identity to the version of the last
\* manifest entry of that identity that passes the selection, and holds no
\* other identity; exclusion wins, and include rules that match nothing
\* leave it empty.
C21_LastQualifyingWins ==
    Planned =>
        LET ents == ManifestEntries
            desired == DesiredNow
            passes == [i \in DOMAIN ents |-> Qualifies(ents[i])]
        IN  /\ \A i \in DOMAIN ents :
                  InDesired(desired, ents[i]) <=>
                     \E j \in DOMAIN ents :
                        /\ ents[j] = ents[i]
                        /\ passes[j]
                        /\ \A k \in DOMAIN ents :
                              (k > j /\ ents[k].id = ents[i].id)
                                  => (~passes[k] \/ ents[k] = ents[i])
            /\ \A id \in DOMAIN desired : \E i \in DOMAIN ents : ents[i].id = id
            /\ (GivenRules(include) /\ \A i \in DOMAIN ents : ~HitsAny(include, ents[i]))
                  => DOMAIN desired = {}

C21_Witness ==
    /\ Planned
    /\ LET ents == ManifestEntries
           desired == DesiredNow
       IN  /\ Len(ents) = 2
           /\ ents[1].id = StrFoo
           /\ ents[2].id = StrFoo
           /\ ents[1].version # ents[2].version
           /\ HitsAny(include, ents[1])
           /\ HitsAny(exclude, ents[2])
           /\ InDesired(desired, ents[1])
           /\ ~InDesired(desired, ents[2])

\* the entries _verify_entries has been through so far
Verified ==
    IF mode = "NONE" \/ pc \in {"idle", "start", "open", "present"} THEN <<>>
    ELSE IF pc = "verify" THEN SubSeq(entries, 1, idx - 1)
    ELSE IF pc = "done" /\ outcome \notin {"ok", "IntegrityFailure"} THEN <<>>
    ELSE entries

ActualOf(e) == archive.members[e.member]

SizeDiffers(e) == e.size # Nothing /\ e.size[1] # SizeOf(ActualOf(e))
HashDiffers(e) == e.sha256 # Nothing /\ e.sha256[1] # Digest(ActualOf(e))

\* the findings of the entries in ents whose kind is `what`, in order
KindOf(fnd, what) == SelectSeq(fnd, LAMBDA f : f.what = what)

\* the members of the entries of ents that satisfy P, in order
MembersWhere(ents, P(_)) ==
    LET sel == SelectSeq(ents, P)
    IN  [i \in DOMAIN sel |-> sel[i].member]

NoHash(e) == e.sha256 = Nothing

FindingMembers(fnd) == [i \in DOMAIN fnd |-> fnd[i].member]

\* finding f is one that entry e gives rise to
Justified(f, e) ==
    /\ f.member = e.member
    /\ \/ f.what = "Size mismatch" /\ SizeDiffers(e)
       \/ f.what = "Manifest missing SHA-256" /\ NoHash(e)
       \/ f.what = "SHA-256 mismatch" /\ HashDiffers(e)

\* the findings can be assigned to entries that give rise to them, entry
\* positions never decreasing along the list, the size finding of an entry
\* before its hash finding, no finding twice for one entry
InManifestOrder(fnd, ents) ==
    \E pos \in [DOMAIN fnd -> DOMAIN ents] :
        /\ \A i \in DOMAIN fnd : Justified(fnd[i], ents[pos[i]])
        /\ \A i, j \in DOMAIN fnd :
              i < j => \/ pos[i] < pos[j]
                       \/ /\ pos[i] = pos[j]
                          /\ fnd[i].what = "Size mismatch"
                          /\ fnd[j].what # "Size mismatch"

\* C22: over the entries verified so far, the size-mismatch findings are those
\* of the entries whose expected size is present and differs, the
\* missing-hash findings those of the entries without hash, which are not
\* hashed, the hash-mismatch findings those of the hashed entries whose
\* digest differs; an entry that matches in size and hash has no finding,
\* and the findings follow the manifest order.
C22_VerifyFindings ==
    /\ FindingMembers(KindOf(findings, "Size mismatch")) = MembersWhere(Verified, SizeDiffers)
    /\ FindingMembers(KindOf(findings, "Manifest missing SHA-256")) = MembersWhere(Verified, NoHash)
    /\ FindingMembers(KindOf(findings, "SHA-256 mismatch")) = MembersWhere(Verified, HashDiffers)
    /\ Len(findings) = Len(MembersWhere(Verified, SizeDiffers))
                       + Len(MembersWhere(Verified, NoHash))
                       + Len(MembersWhere(Verified, HashDiffers))
    /\ hashed = { Verified[i].member : i \in { j \in DOMAIN Verified : ~NoHash(Verified[j]) } }
    /\ InManifestOrder(findings, Verified)
    /\ \A i \in DOMAIN findings :
          /\ findings[i].what = "Size mismatch" =>
                findings[i].got = Some(SizeOf(archive.members[findings[i].member]))
          /\ findings[i].what = "SHA-256 mismatch" =>
                findings[i].got = Some(Digest(archive.members[findings[i].member]))

C22_Witness ==
    /\ pc = "gate"
    /\ Len(entries) = 2
    /\ ~SizeDiffers(entries[1]) /\ ~HashDiffers(entries[1]) /\ ~NoHash(entries[1])
    /\ entries[1].size # Nothing
    /\ entries[2].member # entries[1].member
    /\ NoHash(entries[2])
    /\ Len(findings) = 1
    /\ findings[1].member = entries[2].member
    /\ hashed = {entries[1].member}

\* the session directories that exist now and did not when the call started
NewSessions == DOMAIN bkp.sessions \ DOMAIN bkp0.sessions

\* C23: a session directory is created only for a plan with at least one
\* victim, so never in mode NONE, for an empty target or for an empty plan;
\* the one created has a name that was free, the first free suffix, and the
\* sessions that were there stay as they were.
C23_LazySession ==
    /\ NewSessions # {} =>
          /\ victims # <<>>
          /\ rmode \in {"REPLACE", "CLEAN"}
          /\ installed # <<>>
          /\ NewSessions = {session}
          /\ \A c \in 0..(session - 1) : c \in DOMAIN bkp0.sessions
    /\ (victims # <<>> /\ rpc \in {"copy", "remove", "done"}) => NewSessions = {session}
    /\ \A c \in DOMAIN bkp0.sessions :
          c \in DOMAIN bkp.sessions /\ bkp.sessions[c] = bkp0.sessions[c]

C23_Witness ==
    /\ rpc = "done"
    /\ routcome = "ok"
    /\ rmode = "REPLACE"
    /\ DOMAIN bkp0.sessions = {0, 1}
    /\ session = 2
    /\ bkp.sessions[0] = OldSession
    /\ StrFoo10 \in DOMAIN bkp.sessions[2]
    /\ StrBar20Vsix \in DOMAIN tgt.items

C23_NoVictimNoSession ==
    /\ rpc = "done"
    /\ routcome = "ok"
    /\ rmode = "REPLACE"
    /\ installed # <<>>
    /\ victims = <<>>
    /\ bkp.exists
    /\ NewSessions = {}

MoveFailed == rpc = "done" /\ routcome \in {"CopyFailed", "RemoveFailed"}

\* C24: when the move of victim number vidx fails, the call ends with that
\* error, the victims before it are complete in the session directory and
\* gone from the target, and the victims after it have not been touched.
C24_NoRollback ==
    MoveFailed =>
        /\ vidx \in DOMAIN victims
        /\ \A i \in 1..(vidx - 1) :
              /\ CopyComplete(victims[i].path)
              /\ victims[i].path \notin DOMAIN tgt.items
        /\ \A i \in (vidx + 1)..Len(victims) :
              /\ Intact(victims[i].path)
              /\ ~InSession(victims[i].path)
        /\ routcome = "RemoveFailed" => CopyComplete(victims[vidx].path)
        /\ routcome = "CopyFailed" => Intact(victims[vidx].path)

C24_Witness ==
    /\ MoveFailed
    /\ routcome = "RemoveFailed"
    /\ vidx = 2
    /\ CopyComplete(victims[1].path)
    /\ victims[1].path \notin DOMAIN tgt.items
    /\ ~Intact(victims[2].path)

\* the members the extraction loop of this call has been through
Processed ==
    IF \/ spc \in {"extract", "mark"}
       \/ spc = "done" /\ (touched \/ soutcome = "IncompleteInstall")
    THEN SubSeq(tarball.members, 1, midx - 1)
    ELSE <<>>

UnderWrapper(name) ==
    Len(name) > Len(StrPrefix) + 1 /\ SubSeq(name, 1, Len(StrPrefix) + 1) = StrPrefix \o <<"/">>

\* where a member goes: nowhere for the wrapper itself, <rest> for
\* <wrapper>/<rest>, its own name otherwise
DestOf(member) ==
    IF member.name = StrPrefix THEN Nothing
    ELSE IF UnderWrapper(member.name)
         THEN Some(SubSeq(member.name, Len(StrPrefix) + 2, Len(member.name)))
    ELSE Some(member.name)

Extracted == SelectSeq(Processed, LAMBDA mb : DestOf(mb) # Nothing)

FirstComp(p) == split(p, "/")[1]

LoopRan == spc \in {"extract", "mark"} \/ (spc = "done" /\ (touched \/ soutcome = "IncompleteInstall"))

\* every member the loop has been through is where the rule puts it: the
\* extractions follow the members in order, and each file holds the data of
\* the last member written to its path
PlacedByRule ==
    LoopRan =>
        /\ extracts = [i \in DOMAIN Extracted |-> dest_key(DestOf(Extracted[i])[1])]
        /\ \A i \in DOMAIN Extracted :
              LET key == dest_key(DestOf(Extracted[i])[1])
              IN  /\ key \in DOMAIN target.files
                  /\ (\A j \in DOMAIN Extracted :
                         (j > i) => dest_key(DestOf(Extracted[j])[1]) # key)
                        => /\ target.files[key].data = Extracted[i].data
                           /\ target.files[key].kind = "file"

Succeeded == spc = "done" /\ soutcome = "ok" /\ touched

AllInWrapper ==
    \A i \in DOMAIN tarball.members :
        tarball.members[i].name = StrPrefix \/ UnderWrapper(tarball.members[i].name)

\* C25 as stated: the members named like the wrapper are skipped, a member
\* <wrapper>/<rest> is written to <commit dir>/<rest>, any other member under
\* its own name; after a successful call on a tarball whose members all lie
\* under the wrapper, no path <commit dir>/<wrapper>/... exists.
C25_Original ==
    /\ PlacedByRule
    /\ (Succeeded /\ AllInWrapper) =>
          \A p \in DOMAIN target.files : FirstComp(p) # StrPrefix

\* C25 amended: the placement rule as stated, one wrapper level being
\* removed; after a successful call on a tarball whose members all lie under
\* the wrapper, the paths <commit dir>/<wrapper>/... are those of the members
\* named <wrapper>/<wrapper>/..., so there is none when no member has such a
\* name.
C25_OneLevelStripped ==
    /\ PlacedByRule
    /\ (Succeeded /\ AllInWrapper) =>
          \A p \in DOMAIN target.files :
              FirstComp(p) = StrPrefix =>
                  \E i \in DOMAIN tarball.members :
                      /\ UnderWrapper(tarball.members[i].name)
                      /\ UnderWrapper(DestOf(tarball.members[i])[1])
                      /\ p \in {dest_key(DestOf(tarball.members[i])[1])}
                               \cup Ancestors(tar_path(DestOf(tarball.members[i])[1]))

C25_Witness ==
    /\ Succeeded
    /\ Len(tarball.members) = 3
    /\ tarball.members[1].name = Wrapped(Wrapped(StrOld))
    /\ tarball.members[2].name = Wrapped(StrNode)
    /\ tarball.members[3].name = Wrapped(StrBinCodeServer)
    /\ DOMAIN target.files = {StrNode, <<"b", "i", "n">>, StrBinCodeServer, StrMarker,
                              StrPrefix, Wrapped(StrOld)}

\* C26: preseed_server writes no file outside the commit directory,
\* whatever the tarball holds.
C26_NothingOutside ==
    \A p \in DOMAIN target.files : ~Outside(p)

\* the leaf of a name without a trailing .vsix in any letter case
BaseOf(n) ==
    LET leaf == PathName(n)
    IN  IF Len(leaf) >= 5 /\ lower(SubSeq(leaf, Len(leaf) - 4, Len(leaf))) = StrVsix
        THEN SubSeq(leaf, 1, Len(leaf) - 5)
        ELSE leaf

\* 'latest', or an optional 'v', a digit and then word characters, dots or
\* hyphens, in any letter case
VersionLike(tok) ==
    LET t == lower(tok)
        d == IF t # <<>> /\ t[1] = "v" THEN 2 ELSE 1
    IN  \/ t = StrLatest
        \/ /\ Len(t) >= d
           /\ t[d] \in Digits
           /\ \A i \in (d + 1)..Len(t) : t[i] \in Letters \cup Digits \cup {"_", ".", "-"}

Tokens(n) == split(BaseOf(n), "-")

HasVersionToken(n) ==
    LET toks == Tokens(n)
    IN  Len(toks) >= 2 /\ VersionLike(toks[Len(toks)])

\* the stated result of the split, identity and version lower-cased
StatedSplit(n) ==
    LET base == BaseOf(n)
        toks == split(base, "-")
    IN  IF Len(toks) >= 2 /\ VersionLike(toks[Len(toks)])
        THEN NameResult(Some(lower(join(SubSeq(toks, 1, Len(toks) - 1), "-"))),
                        Some(lower(toks[Len(toks)])))
        ELSE NameResult(Some(lower(base)), Nothing)

\* the same, with None for an identity that would be empty before a version
\* token and (None, None) for the empty name
ActualSplit(n) ==
    LET stated == StatedSplit(n)
    IN  IF n = <<>> THEN NameResult(Nothing, Nothing)
        ELSE IF stated.version # Nothing /\ stated.id = Some(<<>>)
             THEN NameResult(Nothing, stated.version)
        ELSE stated

\* the names the call has split: those of the target's items and those of
\* the manifest records
SplitNames ==
    (IF rpc \in {"idle", "start", "within", "scan"} THEN {}
     ELSE { n \in DOMAIN tgt.items \cup DOMAIN tgt0.items : n[1] # "." })
    \cup { rman.files[i].name[1] : i \in DOMAIN rman.files }

\* every name a call may meet, with its split as computed, as stated and as
\* amended
AllSplitNames == DOMAIN Candidates \cup {StrBk} \cup { r.name[1] : r \in RRecords }
SplitDone == [n \in AllSplitNames |-> split_name(n)]
SplitStated == [n \in AllSplitNames |-> StatedSplit(n)]
SplitActual == [n \in AllSplitNames |-> ActualSplit(n)]

\* when the call is over, the scanned list and the manifest entries carry
\* the split f of their names
SplitsAre(f) ==
    rpc = "done" =>
        LET entriesRead == ManifestEntries
        IN  /\ \A n \in SplitNames : SplitDone[n] = f[n]
            /\ \A i \in DOMAIN installed :
                  /\ Some(installed[i].id) = f[installed[i].path].id
                  /\ installed[i].version = f[installed[i].path].version
            /\ \A i \in DOMAIN rman.files :
                  rman.files[i].present =>
                      \E k \in DOMAIN entriesRead :
                          /\ Some(entriesRead[k].id) = f[rman.files[i].name[1]].id
                          /\ entriesRead[k].version = f[rman.files[i].name[1]].version

\* C27 as stated: every name splits into (remaining tokens, last token) when
\* the last of at least two tokens is version-like, and into (base, no
\* version) otherwise.
C27_Original ==
    \A n \in SplitNames : SplitDone[n] = SplitStated[n]

\* C27 amended: as stated, except that the identity is None when nothing
\* stands before the version token and that the empty name gives (None,
\* None); installed items and manifest names go through the same split.
C27_SplitName == SplitsAre(SplitActual)

C27_Witness ==
    /\ rpc = "done"
    /\ \E i \in DOMAIN installed :
          /\ installed[i].path = StrBar20Vsix
          /\ installed[i].id = <<"b", "a", "r">>
          /\ installed[i].version = Some(<<"2", ".", "0">>)
    /\ \E k \in DOMAIN ManifestEntries :
          /\ ManifestEntries[k].id = <<"b", "a", "r">>
          /\ ManifestEntries[k].version = Some(StrLatest)
    /\ StrDash10 \in SplitNames
    /\ SplitDone[StrDash10].id = Nothing

\* the places where the content of item n may be: its original path and
\* <session>/<name>
PlacesOf(n) ==
    (IF n \in DOMAIN tgt.items THEN {tgt.items[n]} ELSE {})
    \cup (IF InSession(n) THEN {bkp.sessions[session][n]} ELSE {})

\* C29: in every state of a call, also after a failed copy or delete, the
\* whole content of each victim is at its original path or at
\* <session>/<name>, and an item that is no victim is at its path untouched.
C29_NoDataLoss ==
    rpc \in {"session", "copy", "remove", "done"} =>
        /\ \A j \in DOMAIN victims : tgt0.items[victims[j].path] \in PlacesOf(victims[j].path)
        /\ \A n \in DOMAIN tgt0.items :
              (\A j \in DOMAIN victims : victims[j].path # n) => Intact(n)

C29_Witness ==
    /\ rpc = "done"
    /\ routcome = "RemoveFailed"
    /\ vidx = 1
    /\ Len(victims) = 2
    /\ ~tgt.items[victims[1].path].whole
    /\ bkp.sessions[session][victims[1].path] = tgt0.items[victims[1].path]

ExpandFailed ==
    pc = "done" /\ outcome \in {"ArchiveIncomplete", "IntegrityFailure", "InvalidZip"}

====
